---- MODULE Spec2Model ----
(***************************************************************************)
(* Model of the volleyball analysis worker of video_ml_platform:           *)
(*   src/worker/tracker.py            SimpleTracker, BallTrajectory         *)
(*   src/worker/action_classifier.py  ActionClassifier, EventSegmenter      *)
(*   src/worker/detector.py           Detection, calibrate_teams            *)
(*   src/worker/video_processor.py    process_video                         *)
(*                                                                         *)
(* Numbers.  Box coordinates are integers, so every IoU is a ratio of two  *)
(* integers; it is kept as a pair <<num, den>> and compared by cross       *)
(* multiplication, which is what the float comparison yields for such       *)
(* operands.  Timestamps are integers in units of 1/TicksPerSecond s.      *)
(***************************************************************************)
EXTENDS Integers, Sequences, FiniteSets, TLC

VARIABLES
    \* ---- SimpleTracker (tracker.py:85-90) ----
    next_id,        \* self._next_id
    tracks,         \* self._players : track id -> [player, lost_frames]
    \* ---- one SimpleTracker.update call, as observed by its caller ----
    last_dets,      \* detections.players as passed to the last update
    last_ball,      \* detections.ball as passed to the last update
    ball_seen,      \* every ball sample handed to the trajectory, in arrival order
    speed_out,      \* the last read of BallTrajectory.speed on its own: [pts, value]
    bind,           \* <<track id, detection index, best_iou>> bound in the last update
    out_players,    \* detections.players as returned by the last update
    \* ---- history of the tracker run ----
    issued,         \* identities in the order they were handed out
    deleted,        \* <<identity, last box>> of the tracks deleted so far
    missed,         \* identity -> updates in a row without a detection (capped)
    regained        \* identities bound in the last update after max_lost misses

VARIABLES
    \* ---- BallTrajectory (tracker.py:28-29) ----
    positions,      \* deque of <<cx, cy, frame_number>>
    timestamps      \* deque of timestamps

VARIABLES
    \* ---- SimpleTracker._iou called on its own (tracker.py:153-161) ----
    iou_a,          \* a
    iou_b,          \* b
    iou_ab,         \* the value of _iou(a, b), NoIou before the call
    iou_ba          \* the value of _iou(b, a), NoIou before the call

VARIABLES
    \* ---- EventSegmenter (action_classifier.py:174-180) ----
    events,         \* self.events
    current_action, \* self._current_action
    start_frame,    \* self._start_frame
    start_time,     \* self._start_time
    stable_count,   \* self._stable_count
    \* ---- the last call made on the segmenter ----
    seg_op,         \* "none", "update" or "flush"
    seg_pred,       \* the prediction passed to the last update
    seg_frame,      \* frame_number / final_frame of the last call
    seg_time,       \* timestamp / final_time of the last call
    \* ---- history of the prediction stream ----
    run,            \* the trailing run of equal predictions: [action, len, from]
    ev_runs,        \* for each event of the log, the run that was open at its commit
    \* ---- the caller of the segmenter (the frame loop of process_video) ----
    fps,            \* fps
    frame_skip,     \* frame_skip
    seg_updates,    \* update calls made
    seg_flushes     \* flush calls made

tracker_vars == <<next_id, tracks, last_dets, last_ball, bind, out_players,
                  issued, deleted, missed, regained, positions, timestamps,
                  iou_a, iou_b, iou_ab, iou_ba, ball_seen, speed_out>>

VARIABLES
    \* ---- ActionClassifier (action_classifier.py:62-67) ----
    classifier,     \* [last_action, stable_count, event_buffer]: the fields
    calls           \* the classify calls made on the classifier on its own

VARIABLES
    \* ---- the process_video calls in progress at once ----
    active,         \* the call that runs; the variables above hold its objects
    parked          \* call -> the objects of a call that waits for the processor

VARIABLES
    \* ---- analyze_video (tasks.py:44-127) and the job document ----
    task,           \* [pc, before, after, output_object]: the task's position, the
                    \* progress values it wrote itself before and after
                    \* process_video, and its local output_object
    job             \* [status, result]: the document in jobs_col

VARIABLES
    \* ---- GET /result/{job_id} (api/main.py:174-184) ----
    reply           \* [status, code, result]: the status the last request found
                    \* in the document, the HTTP code and the body it answered

\* the classifier and the segmenter: what the tracker's output is handed to
seg_vars == <<events, current_action, start_frame, start_time, stable_count,
              seg_op, seg_pred, seg_frame, seg_time, run, ev_runs,
              fps, frame_skip, seg_updates, seg_flushes, classifier, calls,
              active, parked, task, job, reply>>

\* seg_vars but for the task and the job document
seg_rest == <<events, current_action, start_frame, start_time, stable_count,
              seg_op, seg_pred, seg_frame, seg_time, run, ev_runs,
              fps, frame_skip, seg_updates, seg_flushes, classifier, calls,
              active, parked, reply>>

VARIABLES
    \* ---- process_video (video_processor.py:109-221) ----
    pc,             \* "start", "loop", "encode", "done" or "raised"
    total_frames,   \* CAP_PROP_FRAME_COUNT as the container reports it
    frame_number,   \* frames read so far
    processed,      \* frames sent through the pipeline
    color_counter,  \* Counter of jersey colours, in insertion order
    calibrated,
    calib_frames,
    last_action,
    progress,       \* the values passed to progress_callback, in order
    result,         \* the dict returned
    \* ---- VolleyballDetector (detector.py:76) ----
    team_colors,    \* colour -> "team_a" | "team_b"
    \* ---- history ----
    calib_at        \* the frame numbers at which calibrate_teams was called

pipe_vars == <<pc, total_frames, frame_number, processed, color_counter, calibrated,
               calib_frames, last_action, progress, result, team_colors, calib_at>>

vars == <<tracker_vars, seg_vars, pipe_vars>>

----------------------------------------------------------------------------
(* Bounds of the model *)

\* no update is taken that would hand out more identities than this
MaxIds == 2
\* player detections per frame
MaxDets == 2
\* update calls made on a segmenter
MaxSegUpdates == 17
\* flush calls made on a segmenter
MaxFlushes == 2
\* frames a video of the pipeline specification holds
MaxFrames == 9
\* frames a video of the progress specification holds
MaxLongFrames == 61
\* greatest coordinate of a box handed to _iou on its own
MaxCoord == 2
\* frames a video of the classifier specification holds
MaxRuleFrames == 4
\* frames a video of the resting-ball specification holds
MaxStillFrames == 10
\* colours a colour counter of the calibration specification holds
MaxCounterLen == 3

----------------------------------------------------------------------------
(* Helpers *)

Max(a, b) == IF a >= b THEN a ELSE b
Min(a, b) == IF a <= b THEN a ELSE b

SetMin(S) == CHOOSE m \in S : \A x \in S : m <= x

RECURSIVE SortedSeq(_)
SortedSeq(S) == IF S = {} THEN <<>>
                ELSE LET m == SetMin(S) IN <<m>> \o SortedSeq(S \ {m})

Range(s) == {s[i] : i \in 1..Len(s)}

\* rationals <<num, den>> with den > 0
RGt(p, q) == p[1] * q[2] > q[1] * p[2]
RGe(p, q) == p[1] * q[2] >= q[1] * p[2]
REq(p, q) == p[1] * q[2] = q[1] * p[2]

----------------------------------------------------------------------------
(* detector.py: Detection, PlayerInfo *)

Detection(x1, y1, x2, y2) == [x1 |-> x1, y1 |-> y1, x2 |-> x2, y2 |-> y2]

W(d) == d.x2 - d.x1
H(d) == d.y2 - d.y1
Area(d) == W(d) * H(d)

PlayerInfo(det, team, color, tid) ==
    [detection |-> det, team |-> team, jersey_color |-> color, track_id |-> tid]

\* a PlayerInfo as detect_frame builds it: track_id = -1
NewPlayer(det) == PlayerInfo(det, "unknown", "unknown", -1)

----------------------------------------------------------------------------
(* tracker.py: SimpleTracker *)

iou_threshold == <<3, 10>>      \* 0.3
max_lost == 15

\* SimpleTracker._iou
IouSumOfAreas(a, b) ==
    LET ix1 == Max(a.x1, b.x1)
        iy1 == Max(a.y1, b.y1)
        ix2 == Min(a.x2, b.x2)
        iy2 == Min(a.y2, b.y2)
        inter == Max(0, ix2 - ix1) * Max(0, iy2 - iy1)
        union == Area(a) + Area(b)
    IN  IF inter = 0 THEN <<0, 1>>
        ELSE IF union > 0 THEN <<inter, union>> ELSE <<0, 1>>
IouOverFirstArea(a, b) ==
    LET ix1 == Max(a.x1, b.x1)
        iy1 == Max(a.y1, b.y1)
        ix2 == Min(a.x2, b.x2)
        iy2 == Min(a.y2, b.y2)
        inter == Max(0, ix2 - ix1) * Max(0, iy2 - iy1)
        union == Area(a)
    IN  IF inter = 0 THEN <<0, 1>>
        ELSE IF union > 0 THEN <<inter, union>> ELSE <<0, 1>>
Iou(a, b) ==
    LET ix1 == Max(a.x1, b.x1)
        iy1 == Max(a.y1, b.y1)
        ix2 == Min(a.x2, b.x2)
        iy2 == Min(a.y2, b.y2)
        inter == Max(0, ix2 - ix1) * Max(0, iy2 - iy1)
        union == Area(a) + Area(b) - inter
    IN  IF inter = 0 THEN <<0, 1>>
        ELSE IF union > 0 THEN <<inter, union>> ELSE <<0, 1>>

\* no _iou call is on its own
NoIou == <<0, 0>>
IouIdle ==
    /\ iou_a = Detection(0, 0, 0, 0)
    /\ iou_b = Detection(0, 0, 0, 0)
    /\ iou_ab = NoIou
    /\ iou_ba = NoIou

\* lines 109-115: scan the still-unmatched detections in list order and keep
\* the first one of strictly greatest IoU; best = <<best_iou, best_det_idx>>
RECURSIVE BestDetLastOnTies(_, _, _, _, _)
RECURSIVE BestDet(_, _, _, _, _)
BestDetLastOnTies(t_det, dets, unmatched, k, best) ==
    IF k > Len(unmatched) THEN best
    ELSE LET iou == Iou(t_det, dets[unmatched[k]].detection)
         IN  BestDetLastOnTies(t_det, dets, unmatched, k + 1,
                     IF RGe(iou, best[1]) THEN <<iou, unmatched[k]>> ELSE best)
BestDet(t_det, dets, unmatched, k, best) ==
    IF k > Len(unmatched) THEN best
    ELSE LET iou == Iou(t_det, dets[unmatched[k]].detection)
         IN  BestDet(t_det, dets, unmatched, k + 1,
                     IF RGt(iou, best[1]) THEN <<iou, unmatched[k]>> ELSE best)

\* line 117: best_iou >= self.iou_threshold
MeetsThresholdStrict(iou) == RGt(iou, iou_threshold)
MeetsThresholdFromZero(iou) == RGe(iou, <<0, 1>>)
MeetsThreshold(iou) == RGe(iou, iou_threshold)

\* line 123: list.remove raises ValueError for a value that is not in the
\* list; best_det_idx is -1 while no IoU was above 0
RemoveRaises(unmatched, idx) == idx \notin Range(unmatched)

\* line 123: unmatched_dets.remove(best_det_idx)
RemoveDetFirst(unmatched, idx) == Tail(unmatched)
RemoveDet(unmatched, idx) == SelectSeq(unmatched, LAMBDA i : i # idx)

\* lines 118-121: the detection becomes the track's player, counter reset
BindKeepLost(tracked, player, tid) ==
    [player |-> [player EXCEPT !.track_id = tid], lost_frames |-> tracked.lost_frames]
Bind(tracked, player, tid) ==
    [player |-> [player EXCEPT !.track_id = tid], lost_frames |-> 0]

\* lines 106-123: the tracks are tried in dict order (creation order, which is
\* ascending identity because identities only grow); st carries
\* unmatched_dets, matched_track_ids, the track table and the bound pairs;
\* raised tells that the loop was left by the exception of line 123
RECURSIVE MatchTracks(_, _, _, _)
MatchTracks(tids, k, dets, st) ==
    IF k > Len(tids) \/ st.unmatched = <<>> \/ st.raised THEN st
    ELSE LET tid  == tids[k]
             best == BestDet(st.table[tid].player.detection, dets, st.unmatched,
                             1, <<(<<0, 1>>), -1>>)
         IN  IF MeetsThreshold(best[1])
             THEN IF RemoveRaises(st.unmatched, best[2])
                  THEN [st EXCEPT !.raised = TRUE]
                  ELSE MatchTracks(tids, k + 1, dets,
                        [unmatched |-> RemoveDet(st.unmatched, best[2]),
                         matched   |-> st.matched \cup {tid},
                         table     |-> [st.table EXCEPT
                                          ![tid] = Bind(@, dets[best[2]], tid)],
                         pairs     |-> st.pairs \cup {<<tid, best[2], best[1]>>},
                         raised    |-> FALSE])
             ELSE MatchTracks(tids, k + 1, dets, st)

\* line 129: self._players[track_id].lost_frames > self.max_lost
ExpiredEarly(lost) == lost >= max_lost
Expired(lost) == lost > max_lost

\* lines 126-130: unmatched tracks age by one and are deleted once expired
AgeTracks(table, matched) ==
    LET aged == [t \in DOMAIN table |->
                    IF t \in matched THEN table[t]
                    ELSE [table[t] EXCEPT !.lost_frames = @ + 1]]
        keep == {t \in DOMAIN table : t \in matched \/ ~Expired(aged[t].lost_frames)}
    IN  [t \in keep |-> aged[t]]

\* lines 135-139: the identity of the k-th new track of this update
NewTrackIdReuse(table, nid, k) ==
    SetMin({i \in 0..(nid + k) : i \notin DOMAIN table})
NewTrackId(table, nid, k) == nid + (k - 1)

\* lines 133-139: one new track per detection that stayed unmatched
NewTracksFirstOnly(table, nid, dets, unmatched, k) ==
    IF unmatched = <<>> THEN table
    ELSE [t \in DOMAIN table \cup {nid} |->
            IF t = nid
            THEN [player |-> [dets[unmatched[1]] EXCEPT !.track_id = nid],
                  lost_frames |-> 0]
            ELSE table[t]]
RECURSIVE NewTracks(_, _, _, _, _)
NewTracks(table, nid, dets, unmatched, k) ==
    IF k > Len(unmatched) THEN table
    ELSE LET id == NewTrackId(table, nid, k)
             p  == [dets[unmatched[k]] EXCEPT !.track_id = id]
         IN  NewTracks([t \in DOMAIN table \cup {id} |->
                           IF t = id THEN [player |-> p, lost_frames |-> 0]
                           ELSE table[t]],
                       nid, dets, unmatched, k + 1)

\* lines 146-150: the players of the tracks seen in this frame, in dict order
OutputOfAll(table) ==
    LET ids == SortedSeq(DOMAIN table)
    IN  [i \in 1..Len(ids) |-> table[ids[i]].player]
OutputOf(table) ==
    LET ids == SortedSeq({t \in DOMAIN table : table[t].lost_frames = 0})
    IN  [i \in 1..Len(ids) |-> table[ids[i]].player]

\* FrameDetections; ball is a Detection or NoBall (None)
NoBall == [none |-> TRUE]
FrameDetections(frame_no, timestamp, players, ball) ==
    [frame_number |-> frame_no, timestamp |-> timestamp,
     players |-> players, ball |-> ball]

\* Detection.cx, Detection.cy; the ball boxes of the model have integer centres
Cx(d) == (d.x1 + d.x2) \div 2
Cy(d) == (d.y1 + d.y2) \div 2

\* BallTrajectory.maxlen (line 26): the field, which the deques do not read
maxlen == 60

\* deque(maxlen=60)
TrajMaxLen == 60
DequeAppendDropNewest(q, x) == IF Len(q) >= TrajMaxLen THEN q ELSE Append(q, x)
DequeAppend(q, x) == IF Len(q) >= TrajMaxLen THEN Tail(q) \o <<x>> ELSE Append(q, x)

\* SimpleTracker.update, ball part (lines 98-100): BallTrajectory.update
BallUpdate(d) ==
    /\ last_ball' = d.ball
    /\ IF d.ball # NoBall
       THEN /\ positions' = DequeAppend(positions, <<Cx(d.ball), Cy(d.ball), d.frame_number>>)
            /\ timestamps' = DequeAppend(timestamps, d.timestamp)
            /\ ball_seen' = Append(ball_seen,
                    [sample |-> <<Cx(d.ball), Cy(d.ball), d.frame_number>>,
                     timestamp |-> d.timestamp])
       ELSE UNCHANGED <<positions, timestamps, ball_seen>>

\* speed was not read on its own
NoSpeedRead == [pts |-> <<>>, value |-> <<0, 0>>]

\* SimpleTracker.__init__
TrackerInit ==
    /\ next_id = 0
    /\ tracks = <<>>
    /\ last_dets = <<>>
    /\ last_ball = NoBall
    /\ bind = {}
    /\ out_players = <<>>
    /\ issued = <<>>
    /\ deleted = {}
    /\ missed = <<>>
    /\ regained = {}
    /\ positions = <<>>
    /\ timestamps = <<>>
    /\ ball_seen = <<>>
    /\ speed_out = NoSpeedRead

\* SimpleTracker.update, player part (lines 103-151), for the player list dets.
\* st is the state after the matching loop, aged the table after the ageing
\* loop, table2 the table after the new tracks were added.
PlayerUpdate(dets) ==
    \E st \in {MatchTracks(SortedSeq(DOMAIN tracks), 1, dets,
                     [unmatched |-> [i \in 1..Len(dets) |-> i],
                      matched   |-> {},
                      table     |-> tracks,
                      pairs     |-> {},
                      raised    |-> FALSE])} :
    \E aged \in {AgeTracks(st.table, st.matched)} :
    \E table2 \in {NewTracks(aged, next_id, dets, st.unmatched, 1)} :
    \E fresh \in {DOMAIN table2 \ DOMAIN aged} :
        /\ next_id + Len(st.unmatched) <= MaxIds
        /\ tracks' = table2
        /\ next_id' = next_id + Len(st.unmatched)
        /\ last_dets' = dets
        /\ bind' = st.pairs
        /\ out_players' = OutputOf(table2)
        /\ issued' = issued \o SortedSeq(fresh)
        /\ deleted' = deleted \cup
                {<<t, tracks[t].player.detection>> : t \in DOMAIN tracks \ DOMAIN aged}
        /\ missed' = [t \in DOMAIN missed \cup fresh |->
                        IF t \in fresh \/ t \in st.matched THEN 0
                        ELSE Min(missed[t] + 1, max_lost + 1)]
        /\ regained' = {t \in st.matched : tracks[t].lost_frames = max_lost}
        /\ UNCHANGED <<iou_a, iou_b, iou_ab, iou_ba, speed_out>>

----------------------------------------------------------------------------
(* action_classifier.py: ActionType, ActionPrediction, EventSegmenter *)

SERVE  == "serve"
PASS   == "pass"
SET    == "set"
ATTACK == "attack"
BLOCK  == "block"
DIG    == "dig"
Other  == "other"           \* ActionType.OTHER (OTHER is a reserved word)
ActionType == {SERVE, PASS, SET, ATTACK, BLOCK, DIG, Other}

\* confidences are kept in hundredths; a description is kept as the text of
\* its rule, without the numbers formatted into it
ActionPrediction(action, confidence, description) ==
    [action |-> action, confidence |-> confidence, description |-> description]

\* timestamps and durations are counted in ticks
TicksPerSecond == 100

\* frame_number / fps (video_processor.py:167), for the frame rates of the
\* model, which divide TicksPerSecond
TimeOf(n, rate) == (n * TicksPerSecond) \div rate

MIN_STABLE_FRAMES == 8
MIN_EVENT_DURATION == 30        \* 0.3 s

\* EventSegmenter.__init__
SegmenterInit ==
    /\ events = <<>>
    /\ current_action = Other
    /\ start_frame = 0
    /\ start_time = 0
    /\ stable_count = 0

Event(action, sf, ef, st, et, confidence, description) ==
    [action_type |-> action, start_frame |-> sf, end_frame |-> ef,
     start_time |-> st, end_time |-> et,
     confidence |-> confidence, description |-> description]

\* self.events.append(...)
AppendEventOverwrite(log, ev) ==
    IF log = <<>> THEN <<ev>> ELSE [log EXCEPT ![Len(log)] = ev]
AppendEvent(log, ev) == Append(log, ev)

\* update, lines 189-191: the run that ends is committed
CommitOnTransitionNoDuration(stable, duration, action) ==
    stable >= MIN_STABLE_FRAMES /\ action # Other
CommitOnTransition(stable, duration, action) ==
    /\ stable >= MIN_STABLE_FRAMES
    /\ duration >= MIN_EVENT_DURATION
    /\ action # Other

\* update, lines 192-200
TransitionEventStartsNow(prediction, frame_no, timestamp) ==
    Event(current_action, frame_no, frame_no, timestamp, timestamp,
          prediction.confidence, prediction.description)
TransitionEvent(prediction, frame_no, timestamp) ==
    Event(current_action, start_frame, frame_no, start_time, timestamp,
          prediction.confidence, prediction.description)

\* EventSegmenter.update
SegUpdateCountFromZero(prediction, frame_no, timestamp) ==
    IF prediction.action = current_action
    THEN /\ stable_count' = stable_count + 1
         /\ UNCHANGED <<events, current_action, start_frame, start_time>>
    ELSE /\ events' =
               IF CommitOnTransition(stable_count, timestamp - start_time, current_action)
               THEN AppendEvent(events, TransitionEvent(prediction, frame_no, timestamp))
               ELSE events
         /\ current_action' = prediction.action
         /\ start_frame' = frame_no
         /\ start_time' = timestamp
         /\ stable_count' = 0
SegUpdate(prediction, frame_no, timestamp) ==
    IF prediction.action = current_action
    THEN /\ stable_count' = stable_count + 1
         /\ UNCHANGED <<events, current_action, start_frame, start_time>>
    ELSE /\ events' =
               IF CommitOnTransition(stable_count, timestamp - start_time, current_action)
               THEN AppendEvent(events, TransitionEvent(prediction, frame_no, timestamp))
               ELSE events
         /\ current_action' = prediction.action
         /\ start_frame' = frame_no
         /\ start_time' = timestamp
         /\ stable_count' = 1

\* flush, lines 208-209
CommitOnFlushWithDuration(stable, duration, action) ==
    stable >= MIN_STABLE_FRAMES /\ duration >= MIN_EVENT_DURATION /\ action # Other
CommitOnFlush(stable, duration, action) ==
    stable >= MIN_STABLE_FRAMES /\ action # Other

FLUSH_CONFIDENCE == 60          \* 0.6
FLUSH_DESCRIPTION == "Last event (flush)"

\* flush, lines 210-218
FlushEventFromZero(final_frame, final_time) ==
    Event(current_action, 0, final_frame, 0, final_time,
          FLUSH_CONFIDENCE, FLUSH_DESCRIPTION)
FlushEvent(final_frame, final_time) ==
    Event(current_action, start_frame, final_frame, start_time, final_time,
          FLUSH_CONFIDENCE, FLUSH_DESCRIPTION)

\* EventSegmenter.flush
SegFlushClosesRun(final_frame, final_time) ==
    /\ events' =
          IF CommitOnFlush(stable_count, final_time - start_time, current_action)
          THEN AppendEvent(events, FlushEvent(final_frame, final_time))
          ELSE events
    /\ stable_count' = 0
    /\ UNCHANGED <<current_action, start_frame, start_time>>
SegFlush(final_frame, final_time) ==
    /\ events' =
          IF CommitOnFlush(stable_count, final_time - start_time, current_action)
          THEN AppendEvent(events, FlushEvent(final_frame, final_time))
          ELSE events
    /\ UNCHANGED <<current_action, start_frame, start_time, stable_count>>

\* the trailing run of equal predictions after one more prediction
RunAfter(r, action, frame_no) ==
    IF r.len > 0 /\ r.action = action
    THEN [r EXCEPT !.len = @ + 1]
    ELSE [action |-> action, len |-> 1, from |-> frame_no]

NoRun == [action |-> Other, len |-> 0, from |-> 0]
NoPrediction == ActionPrediction(Other, 0, "")

\* process_video is called once, and not from a task
Standalone ==
    /\ active = "a"
    /\ parked = <<>>
    /\ task = [pc |-> "none", before |-> <<>>, after |-> <<>>, output_object |-> "None"]
    /\ job = [status |-> "none", result |-> [none |-> TRUE]]
    /\ reply = [status |-> "none", code |-> 0, result |-> [none |-> TRUE]]

\* ActionClassifier.__init__ (lines 62-67)
ClassifierInit ==
    /\ classifier = [last_action |-> Other, stable_count |-> 0, event_buffer |-> <<>>]
    /\ calls = <<>>

\* a classifier and a segmenter that are constructed and not called
SegIdle ==
    /\ ClassifierInit
    /\ Standalone
    /\ SegmenterInit
    /\ seg_op = "none"
    /\ seg_pred = NoPrediction
    /\ seg_frame = 0
    /\ seg_time = 0
    /\ run = NoRun
    /\ ev_runs = <<>>
    /\ fps = 25
    /\ frame_skip = 1
    /\ seg_updates = 0
    /\ seg_flushes = 0

----------------------------------------------------------------------------
(* tracker.py: the features of BallTrajectory (lines 35-76).  The ball      *)
(* samples of the model move so that the displacement between consecutive   *)
(* samples has an integer length; Sqrt is undefined otherwise.              *)

Sqrt(n) == CHOOSE r \in 0..n : r * r = n
Abs(x) == IF x < 0 THEN -x ELSE x

RLt(p, q) == RGt(q, p)
RAbs(p) == <<Abs(p[1]), p[2]>>
RAdd(p, q) == <<p[1] * q[2] + q[1] * p[2], p[2] * q[2]>>
RSub(p, q) == <<p[1] * q[2] - q[1] * p[2], p[2] * q[2]>>
RMin(p, q) == IF RGt(p, q) THEN q ELSE p

Dist(a, b) == Sqrt((b[1] - a[1]) * (b[1] - a[1]) + (b[2] - a[2]) * (b[2] - a[2]))

RECURSIVE SumDist(_, _, _)
SumDist(pts, i, hi) ==
    IF i > hi THEN 0 ELSE Dist(pts[i], pts[i + 1]) + SumDist(pts, i + 1, hi)

\* BallTrajectory.speed: range(max(0, len(pts)-5), len(pts)-1) in 0-based
\* indices is the pairs (i, i+1) for i = max(1, n-4) .. n-1 in 1-based ones
SpeedOverFivePairs(pts) ==
    LET n  == Len(pts)
        lo == Max(1, n - 5)
    IN  IF n < 2 THEN <<0, 1>>
        ELSE <<SumDist(pts, lo, n - 1), n - lo>>
Speed(pts) ==
    LET n  == Len(pts)
        lo == Max(1, n - 4)
    IN  IF n < 2 THEN <<0, 1>>
        ELSE <<SumDist(pts, lo, n - 1), n - lo>>

\* BallTrajectory.direction, before the division: the displacement from
\* pts[max(0, len-6)] to pts[-1] and the square of its length; the components
\* of the unit vector are dx / (norm + 1e-6) and dy / (norm + 1e-6)
Direction(pts) ==
    LET n  == Len(pts)
        p1 == pts[Max(1, n - 5)]
        p2 == pts[n]
        dx == p2[1] - p1[1]
        dy == p2[2] - p1[2]
    IN  IF n < 2 THEN [dx |-> 0, dy |-> 0, norm2 |-> 0]
        ELSE [dx |-> dx, dy |-> dy, norm2 |-> dx * dx + dy * dy]

\* component / (norm + 1e-6) > num / den with num / den > 0, compared on the
\* squares.  For integer components within a frame (norm < 10^4) the 1e-6
\* changes nothing: it is below the smallest gap between component / norm
\* and num / den, and at equality > is false with or without it
DirGt(component, norm2, num, den) ==
    /\ component > 0
    /\ den * den * component * component > num * num * norm2

\* BallTrajectory.height_trend: the mean of the differences of the last
\* (up to) 6 ordinates is (last - first) / (count - 1)
HeightTrend(pts) ==
    LET n == Len(pts)
        m == Min(6, n)
    IN  IF n < 3 THEN <<0, 1>>
        ELSE <<pts[n][2] - pts[n - m + 1][2], m - 1>>

----------------------------------------------------------------------------
(* action_classifier.py: THRESHOLDS, ActionClassifier.classify *)

net_x           == <<48, 100>>
back_line_x     == <<15, 100>>
high_y          == <<35, 100>>
low_y           == <<75, 100>>
fast_speed      == <<12, 1>>
slow_speed      == <<4, 1>>

\* ActionClassifier(frame_width=width, frame_height=height)
frame_width == 1280
frame_height == 720

\* lines 100-103
PlayersArmsUp(players) ==
    Cardinality({i \in 1..Len(players) :
                    RLt(<<players[i].detection.y1, frame_height>>, <<4, 10>>)})

IsServeNearLineOnly(bx, speed, dir) ==
    /\ RLt(bx, back_line_x)
    /\ RGt(speed, fast_speed)
    /\ DirGt(Abs(dir.dx), dir.norm2, 7, 10)
IsServe(bx, speed, dir) ==
    /\ RLt(bx, back_line_x) \/ RGt(bx, RSub(<<1, 1>>, back_line_x))
    /\ RGt(speed, fast_speed)
    /\ DirGt(Abs(dir.dx), dir.norm2, 7, 10)

IsAttack(bx, by, speed, dir) ==
    /\ RGt(speed, fast_speed)
    /\ DirGt(dir.dy, dir.norm2, 4, 10)
    /\ RLt(RAbs(RSub(bx, net_x)), <<25, 100>>)
    /\ RLt(by, RAdd(high_y, <<2, 10>>))

IsBlock(bx, h_trend, arms_up) ==
    /\ RLt(h_trend, <<-3, 1>>)
    /\ RLt(RAbs(RSub(bx, net_x)), <<2, 10>>)
    /\ arms_up >= 1

IsSet(bx, speed, h_trend) ==
    /\ RLt(speed, slow_speed)
    /\ RLt(h_trend, <<-15, 10>>)
    /\ RLt(back_line_x, bx) /\ RLt(bx, RSub(<<1, 1>>, back_line_x))

IsDig(by, h_trend) ==
    RGt(by, low_y) /\ RLt(h_trend, <<-2, 1>>)

IsPassAnySlow(speed, h_trend) ==
    /\ RLt(speed, fast_speed)
    /\ RGe(<<0, 1>>, h_trend)
IsPass(speed, h_trend) ==
    /\ RLt(slow_speed, speed) /\ RLt(speed, fast_speed)
    /\ RLt(h_trend, <<0, 1>>)

\* ActionClassifier.classify(trajectory, players, frame_number); the frame
\* number is not read by the code
ClassifyDigBeforeSet(pts, players) ==
    IF pts = <<>> THEN ActionPrediction(Other, 0, "No ball detected")
    ELSE LET last    == pts[Len(pts)]
             bx      == <<last[1], frame_width>>
             by      == <<last[2], frame_height>>
             speed   == Speed(pts)
             h_trend == HeightTrend(pts)
             dir     == Direction(pts)
             arms_up == PlayersArmsUp(players)
         IN  IF IsServe(bx, speed, dir)
                 THEN ActionPrediction(SERVE, 82, "Ball near back line")
             ELSE IF IsAttack(bx, by, speed, dir)
                 THEN ActionPrediction(ATTACK, 85, "Fast downward ball near net")
             ELSE IF IsBlock(bx, h_trend, arms_up)
                 THEN ActionPrediction(BLOCK, 78, "Ball rebounding upward near net")
             ELSE IF IsDig(by, h_trend)
                 THEN ActionPrediction(DIG, 76, "Ball low, rising from floor area")
             ELSE IF IsSet(bx, speed, h_trend)
                 THEN ActionPrediction(SET, 74, "Slow upward arc")
             ELSE IF IsPass(speed, h_trend)
                 THEN ActionPrediction(PASS, 65, "Moderate upward ball")
             ELSE ActionPrediction(Other, 50, "No clear pattern")
Classify(pts, players) ==
    IF pts = <<>> THEN ActionPrediction(Other, 0, "No ball detected")
    ELSE LET last    == pts[Len(pts)]
             bx      == <<last[1], frame_width>>
             by      == <<last[2], frame_height>>
             speed   == Speed(pts)
             h_trend == HeightTrend(pts)
             dir     == Direction(pts)
             arms_up == PlayersArmsUp(players)
         IN  IF IsServe(bx, speed, dir)
                 THEN ActionPrediction(SERVE, 82, "Ball near back line")
             ELSE IF IsAttack(bx, by, speed, dir)
                 THEN ActionPrediction(ATTACK, 85, "Fast downward ball near net")
             ELSE IF IsBlock(bx, h_trend, arms_up)
                 THEN ActionPrediction(BLOCK, 78, "Ball rebounding upward near net")
             ELSE IF IsSet(bx, speed, h_trend)
                 THEN ActionPrediction(SET, 74, "Slow upward arc")
             ELSE IF IsDig(by, h_trend)
                 THEN ActionPrediction(DIG, 76, "Ball low, rising from floor area")
             ELSE IF IsPass(speed, h_trend)
                 THEN ActionPrediction(PASS, 65, "Moderate upward ball")
             ELSE ActionPrediction(Other, 50, "No clear pattern")

----------------------------------------------------------------------------
(* detector.py: detect_frame, calibrate_teams *)

\* dict.get(color, "unknown") on team_colors
TeamOfByColor(colors, color) == IF color = "unknown" THEN "unknown" ELSE "team_a"
TeamOf(colors, color) == IF color \in DOMAIN colors THEN colors[color] ELSE "unknown"

\* detect_frame, lines 92-116: raw is what the network and the colour
\* extraction found in the frame, boxes with a jersey colour and a ball box
DetectFrame(raw, frame_no, rate, colors) ==
    FrameDetections(frame_no, TimeOf(frame_no, Max(rate, 1)),
        [i \in 1..Len(raw.players) |->
            PlayerInfo(raw.players[i].detection,
                       TeamOf(colors, raw.players[i].jersey_color),
                       raw.players[i].jersey_color, -1)],
        raw.ball)

\* color_counter[color] += 1 on a Counter, which keeps insertion order
CounterAdd(cc, color) ==
    IF \E i \in 1..Len(cc) : cc[i][1] = color
    THEN [i \in 1..Len(cc) |-> IF cc[i][1] = color THEN <<color, cc[i][2] + 1>> ELSE cc[i]]
    ELSE Append(cc, <<color, 1>>)

\* video_processor.py:155-157
RECURSIVE CountColors(_, _, _)
CountColors(cc, players, i) ==
    IF i > Len(players) THEN cc
    ELSE CountColors(IF players[i].jersey_color # "unknown"
                     THEN CounterAdd(cc, players[i].jersey_color) ELSE cc,
                     players, i + 1)

\* sorted(color_counts.items(), key=count, reverse=True): a stable sort, so
\* equal counts stay in insertion order
RECURSIVE SortedColors(_)
SortedColors(cc) ==
    IF cc = <<>> THEN <<>>
    ELSE LET best == CHOOSE i \in 1..Len(cc) :
                        /\ \A j \in 1..Len(cc) : cc[j][2] <= cc[i][2]
                        /\ \A j \in 1..(i - 1) : cc[j][2] < cc[i][2]
         IN  <<cc[best]>> \o
             SortedColors([k \in 1..(Len(cc) - 1) |-> IF k < best THEN cc[k] ELSE cc[k + 1]])

\* calibrate_teams: the value of self.team_colors after the call
CalibrateTeamsUnsorted(colors, cc) ==
    LET known  == SelectSeq(cc, LAMBDA e : e[1] # "unknown")
    IN  IF Len(known) >= 2
            THEN (known[1][1] :> "team_a") @@ (known[2][1] :> "team_b")
        ELSE IF Len(known) = 1 THEN (known[1][1] :> "team_a")
        ELSE colors
CalibrateTeams(colors, cc) ==
    LET sorted == SortedColors(cc)
        known  == SelectSeq(sorted, LAMBDA e : e[1] # "unknown")
    IN  IF Len(known) >= 2
            THEN (known[1][1] :> "team_a") @@ (known[2][1] :> "team_b")
        ELSE IF Len(known) = 1 THEN (known[1][1] :> "team_a")
        ELSE colors

----------------------------------------------------------------------------
(* video_processor.py: process_video before it is called *)

NoResult == [none |-> TRUE]

PipeIdle ==
    /\ pc = "start"
    /\ total_frames = 0
    /\ frame_number = 0
    /\ processed = 0
    /\ color_counter = <<>>
    /\ calibrated = FALSE
    /\ calib_frames = 0
    /\ last_action = "other"
    /\ progress = <<>>
    /\ result = NoResult
    /\ team_colors = <<>>
    /\ calib_at = <<>>

----------------------------------------------------------------------------
(* The tracker on its own: any sequence of update calls *)

B0  == Detection(0, 0, 13, 2)
B7  == Detection(7, 0, 20, 2)      \* IoU with B0 = 12/40 = 0.3
Far == Detection(30, 0, 43, 2)     \* disjoint from the others

TrackerBoxes == {B0, B7, Far}

\* detect_frame runs the model with iou=0.45 (detector.py:86): non-maximum
\* suppression leaves no two boxes of one frame with an IoU above 0.45
NmsIou == <<45, 100>>

PlayerLists ==
    {l \in UNION {[1..n -> {NewPlayer(b) : b \in TrackerBoxes}] : n \in 0..MaxDets} :
        \A i, j \in 1..Len(l) :
            i # j => ~RGt(Iou(l[i].detection, l[j].detection), NmsIou)}

\* SimpleTracker.update
TrackerUpdate(d) == BallUpdate(d) /\ PlayerUpdate(d.players)

\* the frames of this specification carry players only
Update ==
    /\ \E dets \in PlayerLists : TrackerUpdate(FrameDetections(0, 0, dets, NoBall))
    /\ UNCHANGED <<seg_vars, pipe_vars>>

InitTracker == TrackerInit /\ IouIdle /\ SegIdle /\ PipeIdle
NextTracker == Update
SpecTracker == InitTracker /\ [][NextTracker]_vars

----------------------------------------------------------------------------
(* Claims about the tracker, checked under SpecTracker *)

OutIds == {out_players[i].track_id : i \in 1..Len(out_players)}
BoundIds == {p[1] : p \in bind}
DeletedIds == {p[1] : p \in deleted}

\* C1: every identity handed out is strictly greater than every identity
\* handed out before it in the run, those of deleted tracks included, so no
\* identity is handed out twice; every track carries a handed-out identity.
C1_IdentitiesStrictlyIncrease ==
    /\ \A i, j \in 1..Len(issued) : i < j => issued[i] < issued[j]
    /\ DOMAIN tracks \subseteq Range(issued)
    /\ DeletedIds \subseteq Range(issued)
    /\ \A t \in DOMAIN tracks : tracks[t].player.track_id = t

\* a track was deleted and a track was created after that
C1_Witness ==
    \E p \in deleted : \E t \in DOMAIN tracks :
        /\ t > p[1]
        /\ tracks[t].lost_frames = 0
        /\ t \notin BoundIds

\* C4: a track is in the table exactly as long as it has not gone more than
\* max_lost updates in a row without a detection (so the update that makes it
\* max_lost + 1 deletes it); a deleted identity is in no later output and
\* never comes back into the table.
C4_TrackExpires ==
    /\ [](\A t \in Range(issued) :
            /\ t \in DOMAIN tracks <=> missed[t] <= max_lost
            /\ t \notin DOMAIN tracks => t \notin OutIds)
    /\ [][\A t \in DeletedIds : t \notin DOMAIN tracks' /\ t \in DeletedIds']_vars

\* a track was deleted after max_lost + 1 misses and a detection at its last
\* box has come back under a greater identity
C4_Witness ==
    \E p \in deleted : \E i \in 1..Len(out_players) :
        /\ missed[p[1]] = max_lost + 1
        /\ out_players[i].detection = p[2]
        /\ out_players[i].track_id > p[1]

\* C5: a track that missed n updates, 1 <= n <= max_lost, and for which some
\* detection not taken by an earlier track has an IoU with its last matched
\* box that meets the threshold, is returned under its own identity with one
\* of the best such detections, its counter back at 0.
C5_RematchKeepsIdentity ==
    [][\A t \in DOMAIN tracks :
        LET old   == tracks[t].player.detection
            taken == {p[2] : p \in {q \in bind' : q[1] < t}}
            avail == (1..Len(last_dets')) \ taken
        IN  (/\ tracks[t].lost_frames \in 1..max_lost
             /\ \E i \in avail :
                    RGe(Iou(old, last_dets'[i].detection), iou_threshold))
            => /\ t \in DOMAIN tracks'
               /\ tracks'[t].lost_frames = 0
               /\ \E j \in 1..Len(out_players') :
                    /\ out_players'[j].track_id = t
                    /\ \E i \in avail :
                          out_players'[j].detection = last_dets'[i].detection
                    /\ \A i \in avail :
                          ~RGt(Iou(old, last_dets'[i].detection),
                               Iou(old, out_players'[j].detection))]_vars

\* a track came back after max_lost misses, the most the limit allows
C5_Witness ==
    \E t \in regained : t \in OutIds /\ tracks[t].lost_frames = 0

\* C6: in one update no detection is bound to two tracks, no track to two
\* detections, and the returned players carry pairwise distinct identities.
C6_MatchingInjective ==
    /\ \A p, q \in bind : (p[1] = q[1]) <=> (p[2] = q[2])
    /\ \A i, j \in 1..Len(out_players) :
            i # j => out_players[i].track_id # out_players[j].track_id

\* two tracks were bound in one update to two detections that overlap
C6_Witness ==
    /\ Cardinality(bind) = 2
    /\ Len(last_dets) = 2
    /\ RGe(Iou(last_dets[1].detection, last_dets[2].detection), iou_threshold)

\* C17: a track is bound to a detection only if the best IoU between the
\* track's box and a detection not taken by an earlier track exceeds the
\* threshold; a best IoU that does not exceed it leaves the track unmatched.
C17_BoundOnlyAboveThreshold ==
    [][\A p \in bind' :
        RGt(Iou(tracks[p[1]].player.detection, last_dets'[p[2]].detection),
            iou_threshold)]_vars

\* C17, amended: a track is bound exactly when the best IoU between its box
\* and a detection not taken by an earlier track is at least the threshold,
\* equality included, and then to a detection of that IoU; a best IoU below
\* the threshold leaves the track unmatched.
C17_BoundFromThreshold ==
    [][\A t \in DOMAIN tracks :
        LET old   == tracks[t].player.detection
            taken == {p[2] : p \in {q \in bind' : q[1] < t}}
            avail == (1..Len(last_dets')) \ taken
        IN  /\ (\E p \in bind' : p[1] = t)
                <=> (\E i \in avail :
                        RGe(Iou(old, last_dets'[i].detection), iou_threshold))
            /\ \A p \in bind' : p[1] = t =>
                /\ p[2] \in avail
                /\ REq(p[3], Iou(old, last_dets'[p[2]].detection))
                /\ RGe(p[3], iou_threshold)]_vars

\* a track was bound to a detection whose IoU with its box is exactly the
\* threshold
C17_Witness ==
    \E p \in bind :
        /\ REq(p[3], iou_threshold)
        /\ p[1] \in OutIds
        /\ tracks[p[1]].lost_frames = 0

\* C18: the players update returns are exactly the tracks whose counter is
\* 0 after the call, each once, and these are the tracks bound or created by
\* this call; a track whose counter is 1 or more stays in the table and is
\* not returned.
C18_OutputIsCurrentTracks ==
    /\ [](/\ OutIds = {t \in DOMAIN tracks : tracks[t].lost_frames = 0}
          /\ Len(out_players) = Cardinality(OutIds)
          /\ \A i \in 1..Len(out_players) :
                out_players[i] = tracks[out_players[i].track_id].player)
    /\ [][OutIds' = {p[1] : p \in bind'} \cup (next_id .. (next_id' - 1))]_vars

\* an update returned one track while another, unmatched for some frames,
\* stayed in the table
C18_Witness ==
    /\ OutIds # {}
    /\ \E t \in DOMAIN tracks : tracks[t].lost_frames >= 2 /\ t \notin OutIds

\* C35: the list update returns holds every player detection of the frame
\* exactly once and nothing else; each carries an identity >= 0, which is that
\* of the track it was bound to or one handed out by this update.
C35_OutputCoversInput ==
    /\ Len(out_players) = Len(last_dets)
    /\ \A i \in 1..Len(last_dets) :
          Cardinality({j \in 1..Len(out_players) :
                          out_players[j] =
                              [last_dets[i] EXCEPT !.track_id = out_players[j].track_id]}) = 1
    /\ \A j \in 1..Len(out_players) :
          /\ out_players[j].track_id >= 0
          /\ \/ \E p \in bind :
                    /\ p[1] = out_players[j].track_id
                    /\ out_players[j].detection = last_dets[p[2]].detection
             \/ /\ out_players[j].track_id \notin BoundIds
                /\ out_players[j].track_id >=
                        next_id - (Len(last_dets) - Cardinality(bind))
                /\ out_players[j].track_id < next_id

\* of two detections the second was bound to track 0 and the first started
\* track 1, so the list returns them in the other order
C35_Witness ==
    /\ Len(last_dets) = 2
    /\ Cardinality(bind) = 1
    /\ \E p \in bind : p[1] = 0 /\ p[2] = 2 /\ REq(p[3], <<1, 1>>)
    /\ Len(out_players) = 2
    /\ out_players[1] = [last_dets[2] EXCEPT !.track_id = 0]
    /\ out_players[2] = [last_dets[1] EXCEPT !.track_id = 1]
    /\ next_id = 2

----------------------------------------------------------------------------
(* The matching loop on boxes that tie: B7 overlaps B0 and B14 alike *)

B14 == Detection(14, 0, 27, 2)     \* IoU with B7 = 0.3, disjoint from B0

GreedyBoxes == {B0, B7, B14}

GreedyLists ==
    {l \in UNION {[1..n -> {NewPlayer(b) : b \in GreedyBoxes}] : n \in 0..MaxDets} :
        \A i, j \in 1..Len(l) :
            i # j => ~RGt(Iou(l[i].detection, l[j].detection), NmsIou)}

UpdateGreedy ==
    /\ \E dets \in GreedyLists : TrackerUpdate(FrameDetections(0, 0, dets, NoBall))
    /\ UNCHANGED <<seg_vars, pipe_vars>>

NextGreedy == UpdateGreedy
SpecGreedy == InitTracker /\ [][NextGreedy]_vars

\* C33: in one update the tracks are served in ascending identity: a track can
\* only take a detection that no track of lower identity took in this update,
\* it takes one whose IoU with its box no such detection exceeds, and of the
\* detections with that IoU the first of the list; what tracks of higher
\* identity overlap plays no part.
C33_GreedyInCreationOrder ==
    [][\A t \in DOMAIN tracks :
        LET old   == tracks[t].player.detection
            taken == {p[2] : p \in {q \in bind' : q[1] < t}}
            avail == (1..Len(last_dets')) \ taken
        IN  /\ (\E p \in bind' : p[1] = t)
                <=> (\E i \in avail :
                        MeetsThreshold(Iou(old, last_dets'[i].detection)))
            /\ \A p \in bind' : p[1] = t =>
                /\ p[2] \in avail
                /\ \A i \in avail :
                      /\ ~RGt(Iou(old, last_dets'[i].detection),
                              Iou(old, last_dets'[p[2]].detection))
                      /\ i < p[2] => RLt(Iou(old, last_dets'[i].detection),
                                         Iou(old, last_dets'[p[2]].detection))]_vars

\* track 0 took, with an IoU of 0.3, the only detection, which lies exactly on
\* the box of track 1; track 1 stays unmatched, and the detection at its box
\* is returned under identity 0 (binding it to track 1 would give IoU 1.0)
C33_Witness ==
    /\ Len(last_dets) = 1
    /\ bind = {<<0, 1, Iou(B7, B0)>>}
    /\ 1 \in DOMAIN tracks
    /\ tracks[1].lost_frames = 1
    /\ tracks[1].player.detection = last_dets[1].detection
    /\ REq(Iou(tracks[1].player.detection, last_dets[1].detection), <<1, 1>>)
    /\ out_players = <<[NewPlayer(B0) EXCEPT !.track_id = 0]>>

----------------------------------------------------------------------------
(* The segmenter as the frame loop of process_video drives it: one update  *)
(* per processed frame (video_processor.py:167), flush after the last      *)
(* frame read (line 183)                                                   *)

SegFpsValues == {25, 50}
SkipValues == {1, 2}

\* the predictions classify returns (action, confidence, rule)
Predictions ==
    {ActionPrediction(Other, 0, "No ball detected"),
     ActionPrediction(Other, 50, "No clear pattern"),
     ActionPrediction(SERVE, 82, "Ball near back line"),
     ActionPrediction(ATTACK, 85, "Fast downward ball near net"),
     ActionPrediction(BLOCK, 78, "Ball rebounding upward near net"),
     ActionPrediction(SET, 74, "Slow upward arc"),
     ActionPrediction(DIG, 76, "Ball low, rising from floor area"),
     ActionPrediction(PASS, 65, "Moderate upward ball")}

SegPredictions ==
    {p \in Predictions : p.action \in {Other, SERVE, PASS}}

InitSeg ==
    /\ TrackerInit
    /\ IouIdle
    /\ PipeIdle
    /\ ClassifierInit
    /\ Standalone
    /\ SegmenterInit
    /\ seg_op = "none"
    /\ seg_pred = NoPrediction
    /\ seg_frame = 0
    /\ seg_time = 0
    /\ run = NoRun
    /\ ev_runs = <<>>
    /\ fps \in SegFpsValues
    /\ frame_skip \in SkipValues
    /\ seg_updates = 0
    /\ seg_flushes = 0

\* the history kept beside a call: the run open before the call is noted for
\* each event the call appends
NoteCall(op, prediction, frame_no, timestamp) ==
    /\ seg_op' = op
    /\ seg_pred' = prediction
    /\ seg_frame' = frame_no
    /\ seg_time' = timestamp
    /\ ev_runs' = ev_runs \o [i \in 1..(Len(events') - Len(events)) |-> run]
    /\ run' = IF op = "update" THEN RunAfter(run, prediction.action, frame_no)
              ELSE run
    /\ UNCHANGED <<classifier, calls, active, parked, task, job, reply>>

\* one processed frame: segmenter.update(pred, frame_number, frame_number / fps)
Feed ==
    /\ seg_flushes = 0
    /\ seg_updates < MaxSegUpdates
    /\ \E prediction \in SegPredictions :
        LET n == seg_updates * frame_skip
        IN  /\ SegUpdate(prediction, n, TimeOf(n, fps))
            /\ NoteCall("update", prediction, n, TimeOf(n, fps))
    /\ seg_updates' = seg_updates + 1
    /\ UNCHANGED <<fps, frame_skip, seg_flushes>>
    /\ UNCHANGED <<tracker_vars, pipe_vars>>

\* the end of the stream: frame_number is the number of frames read, which is
\* past the last processed frame by at most frame_skip
Flush ==
    /\ seg_flushes < MaxFlushes
    /\ \E final_frame \in 0..(MaxSegUpdates * 2) :
        /\ IF seg_flushes > 0 THEN final_frame = seg_frame
           ELSE IF seg_updates = 0 THEN final_frame = 0
           ELSE final_frame \in (seg_frame + 1)..(seg_frame + frame_skip)
        /\ SegFlush(final_frame, TimeOf(final_frame, fps))
        /\ NoteCall("flush", seg_pred, final_frame, TimeOf(final_frame, fps))
    /\ seg_flushes' = seg_flushes + 1
    /\ UNCHANGED <<fps, frame_skip, seg_updates>>
    /\ UNCHANGED <<tracker_vars, pipe_vars>>

NextSeg == Feed \/ Flush
SpecSeg == InitSeg /\ [][NextSeg]_vars

----------------------------------------------------------------------------
(* Claims about the segmenter, checked under SpecSeg *)

Duration(ev) == ev.end_time - ev.start_time
LastEvent == events[Len(events)]
IsPrefix(a, b) == Len(a) <= Len(b) /\ \A i \in 1..Len(a) : b[i] = a[i]

\* C2: once the stream is flushed, every event of the log reports a run of at
\* least 8 equal predictions, lasts at least 0.3 s and is not Other.
C2_EventsQualify ==
    seg_flushes > 0 =>
        \A i \in 1..Len(events) :
            /\ events[i].action_type # Other
            /\ ev_runs[i].action = events[i].action_type
            /\ ev_runs[i].from = events[i].start_frame
            /\ ev_runs[i].len >= MIN_STABLE_FRAMES
            /\ Duration(events[i]) >= MIN_EVENT_DURATION

\* C7: an update whose prediction differs from the current action appends
\* exactly one event, for the run that ends, if and only if stable_count >= 8,
\* timestamp - start_time >= 0.3 s and the current action is not Other; every
\* other update leaves the log as it is.
C7_UpdateCommitRule ==
    [][seg_updates' = seg_updates + 1 =>
        IF /\ seg_pred'.action # current_action
           /\ stable_count >= MIN_STABLE_FRAMES
           /\ seg_time' - start_time >= MIN_EVENT_DURATION
           /\ current_action # Other
        THEN /\ Len(events') = Len(events) + 1
             /\ IsPrefix(events, events')
             /\ events'[Len(events')].action_type = current_action
        ELSE events' = events]_vars

\* at 50 frames per second a run was committed by the prediction that ended it
C7_Witness ==
    /\ seg_op = "update"
    /\ fps = 50
    /\ events # <<>>
    /\ LastEvent.end_frame = seg_frame
    /\ LastEvent.description = seg_pred.description

\* C8: a flush appends at most one event, and only for an open run with
\* stable_count >= 8, final_time - start_time >= 0.3 s and an action that is
\* not Other.
C8_FlushCommitsOnlyQualifyingRun ==
    [][seg_flushes' = seg_flushes + 1 =>
        /\ Len(events') <= Len(events) + 1
        /\ Len(events') > Len(events) =>
              /\ stable_count >= MIN_STABLE_FRAMES
              /\ seg_time' - start_time >= MIN_EVENT_DURATION
              /\ current_action # Other]_vars

\* C9: a flush appends an event exactly when stable_count >= 8 and the current
\* action is not Other; the event runs from the start of the open run to
\* final_frame / final_time and carries confidence 0.6 and the flush rationale.
C9_FlushCommit ==
    [][seg_flushes' = seg_flushes + 1 =>
        IF stable_count >= 8 /\ current_action # Other
        THEN events' = Append(events,
                [action_type |-> current_action,
                 start_frame |-> start_frame, end_frame |-> seg_frame',
                 start_time  |-> start_time,  end_time  |-> seg_time',
                 confidence  |-> 60, description |-> "Last event (flush)"])
        ELSE events' = events]_vars

\* a flush has committed an open run that lasted less than 0.3 s
C9_Witness ==
    /\ seg_op = "flush"
    /\ events # <<>>
    /\ LastEvent.description = FLUSH_DESCRIPTION
    /\ LastEvent.end_frame = seg_frame
    /\ Duration(LastEvent) < MIN_EVENT_DURATION

\* C10: every call leaves the log it found as a prefix of the log it leaves.
C10_LogAppendOnly == [][IsPrefix(events, events')]_vars

\* the log holds an event committed by an update and, after it, one committed
\* by flush
C10_Witness ==
    /\ Len(events) >= 2
    /\ events[1].description # FLUSH_DESCRIPTION
    /\ LastEvent.description = FLUSH_DESCRIPTION

\* C32: an update whose prediction differs from the current action resets the
\* run state to the new action, the call's frame and time and stable_count 1,
\* whether or not it commits; an event it commits starts where the ending run
\* started, ends at the call's frame and time, and carries the confidence and
\* rationale of the incoming prediction.
C32_TransitionEventAndReset ==
    [][(seg_updates' = seg_updates + 1 /\ seg_pred'.action # current_action) =>
        /\ current_action' = seg_pred'.action
        /\ start_frame' = seg_frame'
        /\ start_time' = seg_time'
        /\ stable_count' = 1
        /\ Len(events') > Len(events) =>
              /\ events'[Len(events')].action_type = run.action
              /\ events'[Len(events')].start_frame = run.from
              /\ events'[Len(events')].start_time = TimeOf(run.from, fps)
              /\ events'[Len(events')].end_frame = seg_frame'
              /\ events'[Len(events')].end_time = seg_time'
              /\ events'[Len(events')].confidence = seg_pred'.confidence
              /\ events'[Len(events')].description = seg_pred'.description]_vars

\* a serve run that began at frame 2 was ended by a pass prediction: the
\* event is a serve with the pass's confidence and rationale, and the run
\* state is that of a pass run of one frame
C32_Witness ==
    /\ seg_op = "update"
    /\ seg_pred = ActionPrediction(PASS, 65, "Moderate upward ball")
    /\ events # <<>>
    /\ LastEvent.action_type = SERVE
    /\ LastEvent.start_frame = 2
    /\ LastEvent.end_frame = seg_frame
    /\ LastEvent.confidence = 65
    /\ LastEvent.description = "Moderate upward ball"
    /\ current_action = PASS
    /\ start_frame = seg_frame
    /\ stable_count = 1
    /\ run = [action |-> PASS, len |-> 1, from |-> seg_frame]

\* C36: for updates at strictly increasing frames followed by the flush at a
\* frame past the last update, every event of the log has start_frame <
\* end_frame and starts no earlier than the event before it ends.
C36_EventsOrderedDisjoint ==
    seg_flushes <= 1 =>
        \A i \in 1..Len(events) :
            /\ events[i].start_frame < events[i].end_frame
            /\ events[i].start_time <= events[i].end_time
            /\ i > 1 => /\ events[i].start_frame >= events[i - 1].end_frame
                        /\ events[i].start_time >= events[i - 1].end_time

\* a run committed by the update that ended it is followed by the run that
\* began at that update, committed by the flush
C36_Witness ==
    /\ seg_flushes = 1
    /\ Len(events) = 2
    /\ events[1].description # FLUSH_DESCRIPTION
    /\ events[2].description = FLUSH_DESCRIPTION
    /\ events[2].start_frame = events[1].end_frame
    /\ events[2].end_frame = seg_frame
    /\ events[1].start_frame > 0

\* C37: once an update was made, the current action is the action of the
\* latest prediction and stable_count is the number of predictions, counted
\* back from the latest, that carry that action without a break (at least 1).
C37_RunStateTracksPredictions ==
    seg_updates > 0 =>
        /\ current_action = seg_pred.action
        /\ run.action = seg_pred.action
        /\ stable_count = run.len
        /\ stable_count >= 1
        /\ start_frame = run.from

\* after a committed serve run, three pass predictions in a row
C37_Witness ==
    /\ seg_op = "update"
    /\ events # <<>>
    /\ LastEvent.action_type = SERVE
    /\ seg_pred.action = PASS
    /\ current_action = PASS
    /\ stable_count = 3
    /\ run.len = 3
    /\ seg_frame = run.from + 2 * frame_skip

\* C38: a flush leaves current action, stable_count and the start of the run
\* as they were; a second flush therefore appends an event exactly when the
\* first one did, and that event reports the same run again.
C38_FlushKeepsRunState ==
    [][seg_flushes' = seg_flushes + 1 =>
        /\ UNCHANGED <<current_action, stable_count, start_frame, start_time>>
        /\ seg_flushes = 1 =>
              IF events # <<>> /\ LastEvent.description = FLUSH_DESCRIPTION
              THEN /\ Len(events') = Len(events) + 1
                   /\ IsPrefix(events, events')
                   /\ events'[Len(events')].action_type = LastEvent.action_type
                   /\ events'[Len(events')].start_frame = LastEvent.start_frame
                   /\ events'[Len(events')].start_time = LastEvent.start_time
                   /\ ev_runs'[Len(ev_runs')] = ev_runs[Len(ev_runs)]
              ELSE events' = events]_vars

\* two flushes after a serve run of 8 predictions or more: the log ends with
\* two events for that run
C38_Witness ==
    /\ seg_flushes = 2
    /\ Len(events) >= 2
    /\ LastEvent.description = FLUSH_DESCRIPTION
    /\ events[Len(events) - 1].description = FLUSH_DESCRIPTION
    /\ events[Len(events) - 1].start_frame = LastEvent.start_frame
    /\ LastEvent.action_type = SERVE
    /\ current_action = SERVE
    /\ stable_count >= MIN_STABLE_FRAMES
    /\ start_frame = LastEvent.start_frame

----------------------------------------------------------------------------
(* video_processor.py: process_video *)

\* str(ev["action_type"]) on a member of the str-mixin Enum (line 209)
EnumStr(a) ==
    CASE a = SERVE  -> "ActionType.SERVE"
      [] a = PASS   -> "ActionType.PASS"
      [] a = SET    -> "ActionType.SET"
      [] a = ATTACK -> "ActionType.ATTACK"
      [] a = BLOCK  -> "ActionType.BLOCK"
      [] a = DIG    -> "ActionType.DIG"
      [] a = Other  -> "ActionType.OTHER"

\* next((c for c, t in team_colors.items() if t == team), "unknown")
ColorOfTeam(colors, team) ==
    IF \E c \in DOMAIN colors : colors[c] = team
    THEN CHOOSE c \in DOMAIN colors : colors[c] = team
    ELSE "unknown"

\* lines 204-221
BuildResult ==
    [duration         |-> TimeOf(total_frames, Max(fps, 1)),
     fps              |-> fps,
     total_frames     |-> total_frames,
     processed_frames |-> processed,
     events           |-> [i \in 1..Len(events) |->
                              [action_type |-> EnumStr(events[i].action_type),
                               start_frame |-> events[i].start_frame,
                               end_frame   |-> events[i].end_frame,
                               start_time  |-> events[i].start_time,
                               end_time    |-> events[i].end_time,
                               confidence  |-> events[i].confidence,
                               description |-> events[i].description,
                               players_involved |-> <<>>,
                               team        |-> "None"]],
     team_a_color     |-> ColorOfTeam(team_colors, "team_a"),
     team_b_color     |-> ColorOfTeam(team_colors, "team_b")]

\* line 142: calib_frames = min(int(fps * 5), total_frames)
CalibFramesWindowOnly(rate, total) == 5 * rate
CalibFrames(rate, total) == Min(5 * rate, total)

\* lines 115-142 when the capture opens
OpenVideo ==
    /\ pc = "start"
    /\ pc' = "loop"
    /\ calib_frames' = CalibFrames(fps, total_frames)
    /\ UNCHANGED <<total_frames, frame_number, processed, color_counter, calibrated,
                   last_action, progress, result, team_colors, calib_at>>
    /\ UNCHANGED <<tracker_vars, seg_vars>>

\* lines 116-117: RuntimeError("Cannot open video")
OpenFails ==
    /\ pc = "start"
    /\ pc' = "raised"
    /\ UNCHANGED <<total_frames, frame_number, processed, color_counter, calibrated,
                   calib_frames, last_action, progress, result, team_colors, calib_at>>
    /\ UNCHANGED <<tracker_vars, seg_vars>>

\* lines 153-162
CalibrationRepeated(players) ==
    IF frame_number < calib_frames
    THEN /\ color_counter' = CountColors(color_counter, players, 1)
         /\ UNCHANGED <<calibrated, team_colors, calib_at>>
    ELSE /\ calibrated' = TRUE
         /\ team_colors' = CalibrateTeams(team_colors, color_counter)
         /\ calib_at' = Append(calib_at, frame_number)
         /\ UNCHANGED color_counter
Calibration(players) ==
    IF frame_number < calib_frames
    THEN /\ color_counter' = CountColors(color_counter, players, 1)
         /\ UNCHANGED <<calibrated, team_colors, calib_at>>
    ELSE IF ~calibrated
    THEN /\ calibrated' = TRUE
         /\ team_colors' = CalibrateTeams(team_colors, color_counter)
         /\ calib_at' = Append(calib_at, frame_number)
         /\ UNCHANGED color_counter
    ELSE UNCHANGED <<color_counter, calibrated, team_colors, calib_at>>

\* lines 150-170 for what the detector finds in the frame
ProcessFrame(raw) ==
    /\ TrackerUpdate(DetectFrame(raw, frame_number, fps, team_colors))
    /\ Calibration(out_players')
    /\ \E pred \in {Classify(positions', out_players')} :
        /\ SegUpdate(pred, frame_number, TimeOf(frame_number, fps))
        /\ NoteCall("update", pred, frame_number, TimeOf(frame_number, fps))
        /\ last_action' = pred.action
    /\ seg_updates' = seg_updates + 1
    /\ processed' = processed + 1

\* lines 180-181
ProgressInLoopUncapped(n) ==
    IF n % 30 = 0
    THEN Append(progress, <<n, Max(total_frames, 1)>>)
    ELSE progress
ProgressInLoop(n) ==
    IF n % 30 = 0
    THEN Append(progress, RMin(<<n, Max(total_frames, 1)>>, <<92, 100>>))
    ELSE progress

\* what the detector can find in frame n: nothing; a red player and a ball
\* that travels 16 px per frame along the back line; a blue player and one
\* whose jersey colour is not recognised
ServeBall(n) == Detection(16 * n, 356, 16 * n + 8, 364)
Raw(players, ball) == [players |-> players, ball |-> ball]
Seen(det, color) == [detection |-> det, jersey_color |-> color]

PipeInputs(n) ==
    {Raw(<<>>, NoBall),
     Raw(<<Seen(B0, "red")>>, ServeBall(n)),
     Raw(<<Seen(Far, "blue"), Seen(B7, "unknown")>>, NoBall)}

\* one pass of the loop (lines 145-181) over a frame that is processed, in a
\* video of at most limit frames whose frames show one of inputs
ReadProcessedOf(limit, inputs) ==
    /\ pc = "loop"
    /\ frame_number < limit
    /\ frame_number % frame_skip = 0
    /\ \E raw \in inputs : ProcessFrame(raw)
    /\ frame_number' = frame_number + 1
    /\ progress' = ProgressInLoop(frame_number + 1)
    /\ UNCHANGED <<pc, total_frames, calib_frames, result, fps, frame_skip, seg_flushes>>

ReadProcessed == ReadProcessedOf(MaxFrames, PipeInputs(frame_number))

\* one pass of the loop over a frame that is skipped
ReadSkippedOf(limit) ==
    /\ pc = "loop"
    /\ frame_number < limit
    /\ frame_number % frame_skip # 0
    /\ frame_number' = frame_number + 1
    /\ progress' = ProgressInLoop(frame_number + 1)
    /\ UNCHANGED <<pc, total_frames, calib_frames, result, processed, color_counter,
                   calibrated, last_action, team_colors, calib_at>>
    /\ UNCHANGED <<tracker_vars, seg_vars>>

ReadSkipped == ReadSkippedOf(MaxFrames)

\* cap.read() fails: lines 146-147, 183-188
EndOfStreamNoFlush ==
    /\ pc = "loop"
    /\ progress' = Append(progress, <<94, 100>>)
    /\ pc' = "encode"
    /\ UNCHANGED <<total_frames, frame_number, processed, color_counter, calibrated,
                   calib_frames, last_action, result, team_colors, calib_at>>
    /\ UNCHANGED <<tracker_vars, seg_vars>>
EndOfStream ==
    /\ pc = "loop"
    /\ SegFlush(frame_number, TimeOf(frame_number, fps))
    /\ NoteCall("flush", seg_pred, frame_number, TimeOf(frame_number, fps))
    /\ seg_flushes' = seg_flushes + 1
    /\ progress' = Append(progress, <<94, 100>>)
    /\ pc' = "encode"
    /\ UNCHANGED <<total_frames, frame_number, processed, color_counter, calibrated,
                   calib_frames, last_action, result, team_colors, calib_at>>
    /\ UNCHANGED <<fps, frame_skip, seg_updates>>
    /\ UNCHANGED tracker_vars

\* lines 190-221; whether ffmpeg succeeds changes the file, not the result
Finish ==
    /\ pc = "encode"
    /\ progress' = Append(progress, <<1, 1>>)
    /\ result' = BuildResult
    /\ pc' = "done"
    /\ UNCHANGED <<total_frames, frame_number, processed, color_counter, calibrated,
                   calib_frames, last_action, team_colors, calib_at>>
    /\ UNCHANGED <<tracker_vars, seg_vars>>

\* CAP_PROP_FPS as reported; 0 stands for a container that reports none
CapFpsValues == {0, 1}
\* line 119: cap.get(cv2.CAP_PROP_FPS) or 25.0
FpsOf(cap_fps) == IF cap_fps = 0 THEN 25 ELSE cap_fps
\* CAP_PROP_FRAME_COUNT as reported, which need not be the frames read
TotalFramesValues == {0, 3, 8}

\* the state on entry to process_video, for the frame counts in totals
PipeStart(totals) ==
    /\ TrackerInit
    /\ IouIdle
    /\ ClassifierInit
    /\ Standalone
    /\ SegmenterInit
    /\ seg_op = "none"
    /\ seg_pred = NoPrediction
    /\ seg_frame = 0
    /\ seg_time = 0
    /\ run = NoRun
    /\ ev_runs = <<>>
    /\ seg_updates = 0
    /\ seg_flushes = 0
    /\ \E cap_fps \in CapFpsValues : fps = FpsOf(cap_fps)
    /\ frame_skip \in SkipValues
    /\ pc = "start"
    /\ total_frames \in totals
    /\ frame_number = 0
    /\ processed = 0
    /\ color_counter = <<>>
    /\ calibrated = FALSE
    /\ calib_frames = 0
    /\ last_action = "other"
    /\ progress = <<>>
    /\ result = NoResult
    /\ team_colors = <<>>
    /\ calib_at = <<>>

InitPipe == PipeStart(TotalFramesValues)

NextPipe == OpenVideo \/ OpenFails \/ ReadProcessed \/ ReadSkipped \/ EndOfStream \/ Finish
SpecPipe == InitPipe /\ [][NextPipe]_vars

----------------------------------------------------------------------------
(* Claims about process_video, checked under SpecPipe *)

\* C3: a run of process_video that has read every frame the container
\* reports, of a video that is not empty, has called calibrate_teams exactly
\* once by the time it completes: team assignment is neither repeated nor
\* skipped.
C3_CalibratedExactlyOnce ==
    (pc = "done" /\ total_frames > 0 /\ frame_number = total_frames)
        => Len(calib_at) = 1

\* C27: a run of process_video that returns calls segmenter.flush exactly
\* once, after its last segmenter.update and before the result is built; in
\* a processed frame classify reads the trajectory and the players that
\* tracker.update left and segmenter.update gets classify's prediction, and
\* the frames handed to the segmenter have strictly increasing indices.
C27_FlushOnceAfterLastUpdate ==
    /\ [](/\ pc \in {"start", "loop"} => (seg_flushes = 0 /\ result = NoResult)
          /\ pc = "encode" => (seg_flushes = 1 /\ seg_op = "flush" /\ result = NoResult)
          /\ pc = "done" => (seg_flushes = 1 /\ seg_op = "flush" /\ result # NoResult)
          /\ seg_op = "flush" => seg_frame = frame_number
          /\ seg_op = "update" =>
                /\ seg_pred = Classify(positions, out_players)
                /\ seg_frame < frame_number)
    /\ [][/\ seg_flushes >= 1 => seg_updates' = seg_updates
          /\ seg_updates' # seg_updates =>
                /\ seg_op' = "update"
                /\ seg_updates' = seg_updates + 1
                /\ seg_frame' = frame_number
                /\ frame_number' = frame_number + 1
                /\ (seg_updates > 0 => seg_frame' > seg_frame)
          /\ frame_number' >= frame_number]_vars

\* a returned run that processed frames 0, 2 and 4 with a ball in the last
\* two, skipped the frames between and flushed at frame 6
C27_Witness ==
    /\ pc = "done"
    /\ frame_skip = 2
    /\ frame_number = 6
    /\ seg_updates = 3
    /\ seg_flushes = 1
    /\ seg_frame = 6
    /\ Len(positions) = 2
    /\ result # NoResult

----------------------------------------------------------------------------
(* process_video over a long video in which the detector finds nothing:    *)
(* the progress reports, which do not depend on what the frames show.       *)
(* progress_callback is given; without one nothing is reported.             *)

\* CAP_PROP_FRAME_COUNT as reported: none, fewer than the frames read, about
\* as many, more
LongTotalFramesValues == {0, 8, 40, 100}

InitLong == PipeStart(LongTotalFramesValues)

ReadProcessedLong == ReadProcessedOf(MaxLongFrames, {Raw(<<>>, NoBall)})
ReadSkippedLong == ReadSkippedOf(MaxLongFrames)

NextLong ==
    OpenVideo \/ OpenFails \/ ReadProcessedLong \/ ReadSkippedLong \/ EndOfStream \/ Finish
SpecLong == InitLong /\ [][NextLong]_vars

\* C11: the values passed to progress_callback are non-decreasing and lie in
\* [0,1]; every value before the last is below 1, and once the run has
\* completed the last value is exactly 1, whatever the number of frames read
\* and the reported frame count.
C11_ProgressMonotone ==
    /\ \A i \in 1..Len(progress) :
        /\ RGe(progress[i], <<0, 1>>)
        /\ RGe(<<1, 1>>, progress[i])
        /\ \A j \in (i + 1)..Len(progress) : RGe(progress[j], progress[i])
        /\ (i < Len(progress) \/ pc # "done") => RLt(progress[i], <<1, 1>>)
    /\ pc = "done" =>
        /\ Len(progress) >= 2
        /\ REq(progress[Len(progress)], <<1, 1>>)

\* a completed run that read more frames than the container reported and
\* reported progress twice inside the loop
C11_Witness ==
    /\ pc = "done"
    /\ Len(progress) = 4
    /\ 0 < total_frames /\ total_frames < frame_number
    /\ REq(progress[2], <<92, 100>>)

----------------------------------------------------------------------------
(* Claims about the frame loop of process_video, checked under SpecPipe *)

\* C12: on every processed frame whose detections hold no ball, the
\* prediction made for the frame is OTHER with confidence 0, whatever the
\* trajectory holds from earlier frames.
C12_NoBallGivesOtherZero ==
    (seg_op = "update" /\ last_ball = NoBall)
        => (seg_pred.action = Other /\ seg_pred.confidence = 0)

----------------------------------------------------------------------------
(* process_video over a short video in which a ball is seen in every frame *)
(* and moves freely: the rules of the classifier                            *)

\* where the ball is first seen: low at the back line, low at the net, at
\* mid height at the net, at mid height at the back line (x = 0.05), high at
\* the far back line
BallStarts == {<<100, 600>>, <<640, 600>>, <<640, 300>>, <<64, 360>>, <<1200, 100>>}

\* how the ball moves between frames: fast and flat upward, slowly upward,
\* upward at moderate speed, fast and downward, fast and level (15 px),
\* fast and flat downward
BallSteps == {<<12, -5>>, <<0, -3>>, <<0, -5>>, <<5, 12>>, <<15, 0>>, <<12, 5>>}

\* the ball box the network reports for a ball centred at c
BallAt(c) == Detection(c[1] - 4, c[2] - 4, c[1] + 4, c[2] + 4)

BallCentres ==
    IF positions = <<>> THEN BallStarts
    ELSE {<<positions[Len(positions)][1] + d[1], positions[Len(positions)][2] + d[2]>> :
              d \in BallSteps}

\* a frame shows the ball and either nobody or one player whose box starts
\* in the upper part of the image
RuleInputs ==
    {Raw(ps, BallAt(c)) : ps \in {<<>>, <<Seen(B0, "red")>>}, c \in BallCentres}

InitRules == PipeStart({100}) /\ fps = 25 /\ frame_skip = 1

ReadProcessedRules == ReadProcessedOf(MaxRuleFrames, RuleInputs)

NextRules == OpenVideo \/ OpenFails \/ ReadProcessedRules \/ EndOfStream \/ Finish
SpecRules == InitRules /\ [][NextRules]_vars

\* the rules of classify evaluated on the trajectory and the players that
\* the last update passed to it
RuleMatches(a) ==
    LET last    == positions[Len(positions)]
        bx      == <<last[1], frame_width>>
        by      == <<last[2], frame_height>>
        speed   == Speed(positions)
        h_trend == HeightTrend(positions)
        dir     == Direction(positions)
    IN  CASE a = SERVE  -> IsServe(bx, speed, dir)
          [] a = ATTACK -> IsAttack(bx, by, speed, dir)
          [] a = BLOCK  -> IsBlock(bx, h_trend, PlayersArmsUp(out_players))
          [] a = SET    -> IsSet(bx, speed, h_trend)
          [] a = DIG    -> IsDig(by, h_trend)
          [] a = PASS   -> IsPass(speed, h_trend)

RulePriority == <<SERVE, ATTACK, BLOCK, SET, DIG, PASS>>
RuleConfidence == <<82, 85, 78, 74, 76, 65>>

\* C13: classify returns the action of the first rule that matches in the
\* order SERVE, ATTACK, BLOCK, SET, DIG, PASS with that rule's confidence
\* (0.82, 0.85, 0.78, 0.74, 0.76, 0.65), and OTHER with confidence 0.5 only
\* when no rule matches.
C13_FirstMatchingRuleWins ==
    (seg_op = "update" /\ positions # <<>>) =>
        /\ \A i \in 1..6 :
            (RuleMatches(RulePriority[i]) /\ \A j \in 1..(i - 1) : ~RuleMatches(RulePriority[j]))
                => /\ seg_pred.action = RulePriority[i]
                   /\ seg_pred.confidence = RuleConfidence[i]
        /\ (\A i \in 1..6 : ~RuleMatches(RulePriority[i]))
                <=> seg_pred.action = Other
        /\ seg_pred.action = Other => seg_pred.confidence = 50

\* C21: whenever the normalized ball x is below 0.15 or above 0.85, the
\* speed is above 12 px/frame and the absolute horizontal component of the
\* direction is above 0.7, classify returns SERVE with confidence 0.82,
\* whatever the vertical trend, the ball height and the players.
C21_ServeInBackLineBand ==
    (seg_op = "update" /\ Len(positions) >= 2) =>
        LET last == positions[Len(positions)]
            dir  == Direction(positions)
        IN  (/\ 100 * last[1] < 15 * frame_width \/ 100 * last[1] > 85 * frame_width
             /\ RGt(Speed(positions), <<12, 1>>)
             /\ 100 * dir.dx * dir.dx > 49 * dir.norm2)
            => (seg_pred.action = SERVE /\ seg_pred.confidence = 82)

\* a serve at x = 0.05 + 45/1280 with speed 15, level flight, a player in
\* the frame and the ball at mid height
C21_Witness ==
    /\ seg_op = "update"
    /\ Len(positions) = 4
    /\ positions[1][1] = 64
    /\ Speed(positions) = <<45, 3>>
    /\ out_players # <<>>
    /\ seg_pred.action = SERVE

\* a frame on which the rules BLOCK, SET and DIG all match
C13_Witness ==
    /\ seg_op = "update"
    /\ positions # <<>>
    /\ RuleMatches(BLOCK) /\ RuleMatches(SET) /\ RuleMatches(DIG)
    /\ seg_pred.action = BLOCK

\* C14: the colour-to-team mapping is assigned at most once per run: it is
\* empty until calibrate_teams has run, no step after that changes it, and
\* the colours reported at completion are read from it.
C14_CalibrationFrozen ==
    /\ [](/\ Len(calib_at) <= 1
          /\ calibrated <=> Len(calib_at) = 1
          /\ ~calibrated => team_colors = <<>>
          /\ pc = "done" =>
                /\ result.team_a_color = ColorOfTeam(team_colors, "team_a")
                /\ result.team_b_color = ColorOfTeam(team_colors, "team_b"))
    /\ [][calibrated => team_colors' = team_colors]_vars

\* a completed run that went on processing frames after both teams were
\* assigned
C14_Witness ==
    /\ pc = "done"
    /\ Len(calib_at) = 1
    /\ frame_number > calib_at[1] + 2
    /\ result.team_a_color # "unknown"
    /\ result.team_b_color # "unknown"

\* C16: every player of every processed frame up to and including the frame
\* on which calibrate_teams runs is labelled "unknown", in what detect_frame
\* returns and in what the tracker returns: nobody is team_a or team_b
\* before the teams are assigned.
C16_UnknownBeforeCalibration ==
    (seg_op = "update" /\ (~calibrated \/ calib_at[1] = seg_frame)) =>
        /\ \A i \in 1..Len(last_dets) : last_dets[i].team = "unknown"
        /\ \A i \in 1..Len(out_players) : out_players[i].team = "unknown"

\* a processed frame inside the calibration window that shows a player whose
\* jersey colour has been counted
C16_Witness ==
    /\ seg_op = "update"
    /\ ~calibrated
    /\ seg_frame < calib_frames
    /\ \E i \in 1..Len(out_players) :
        /\ out_players[i].jersey_color = "red"
        /\ \E k \in 1..Len(color_counter) : color_counter[k][1] = "red"

----------------------------------------------------------------------------
(* calibrate_teams on its own: the call of video_processor.py:160-161 on   *)
(* any colour counter                                                       *)

ColorNames == {"red", "blue", "white", "unknown"}
ColorCounts == {5, 35, 40}

\* Counter objects: distinct colours in insertion order, each with a count
CounterValues ==
    UNION {{cc \in [1..n -> ColorNames \X ColorCounts] :
                \A i, j \in 1..n : i # j => cc[i][1] # cc[j][1]} :
           n \in 0..Min(MaxCounterLen, Cardinality(ColorNames))}

InitCalib ==
    /\ TrackerInit
    /\ IouIdle
    /\ SegIdle
    /\ pc = "loop"
    /\ total_frames = 0
    /\ frame_number = 0
    /\ processed = 0
    /\ color_counter \in CounterValues
    /\ calibrated = FALSE
    /\ calib_frames = 0
    /\ last_action = "other"
    /\ progress = <<>>
    /\ result = NoResult
    /\ team_colors = <<>>
    /\ calib_at = <<>>

\* the elif branch of lines 158-161
CalibrateCall ==
    /\ frame_number >= calib_frames
    /\ ~calibrated
    /\ Calibration(<<>>)
    /\ UNCHANGED <<pc, total_frames, frame_number, processed, calib_frames,
                   last_action, progress, result>>
    /\ UNCHANGED <<tracker_vars, seg_vars>>

NextCalib == CalibrateCall
SpecCalib == InitCalib /\ [][NextCalib]_vars

\* the colours of the counter other than "unknown", and the count of one
KnownColors == {color_counter[i][1] : i \in 1..Len(color_counter)} \ {"unknown"}
CountOf(c) ==
    LET i == CHOOSE k \in 1..Len(color_counter) : color_counter[k][1] = c
    IN  color_counter[i][2]

\* C15: calibrate_teams maps the most frequent colour other than "unknown"
\* to team_a and the second most frequent to team_b; with one such colour
\* only team_a is assigned, with none the mapping stays empty; every other
\* colour maps to no team, so {red: 40, blue: 35, white: 5} gives red ->
\* team_a, blue -> team_b and white unassigned; team_a and team_b are never
\* the same colour.
C15_TopTwoColors ==
    calibrated =>
        /\ Cardinality(KnownColors) >= 2 =>
            \E a \in KnownColors : \E b \in KnownColors \ {a} :
                /\ team_colors = (a :> "team_a") @@ (b :> "team_b")
                /\ \A c \in KnownColors : CountOf(a) >= CountOf(c)
                /\ \A c \in KnownColors \ {a} : CountOf(b) >= CountOf(c)
        /\ Cardinality(KnownColors) = 1 =>
            \E a \in KnownColors : team_colors = (a :> "team_a")
        /\ KnownColors = {} => team_colors = <<>>
        /\ \A c \in ColorNames \ DOMAIN team_colors : TeamOf(team_colors, c) = "unknown"
        /\ "unknown" \notin DOMAIN team_colors
        /\ color_counter = <<<<"red", 40>>, <<"blue", 35>>, <<"white", 5>>>> =>
            /\ TeamOf(team_colors, "red") = "team_a"
            /\ TeamOf(team_colors, "blue") = "team_b"
            /\ TeamOf(team_colors, "white") = "unknown"

\* the counter {white: 5, blue: 35, red: 40} after calibration
C15_Witness ==
    /\ calibrated
    /\ color_counter = <<<<"white", 5>>, <<"blue", 35>>, <<"red", 40>>>>
    /\ team_colors = ("red" :> "team_a") @@ ("blue" :> "team_b")

----------------------------------------------------------------------------
(* SimpleTracker._iou on its own: a and b are any two boxes with corners   *)
(* on a small grid, zero-width and zero-height ones included               *)

IouBoxes ==
    {d \in [x1 : 0..MaxCoord, y1 : 0..MaxCoord, x2 : 0..MaxCoord, y2 : 0..MaxCoord] :
        d.x1 <= d.x2 /\ d.y1 <= d.y2}

InitIou ==
    /\ TrackerInit
    /\ SegIdle
    /\ PipeIdle
    /\ iou_a \in IouBoxes
    /\ iou_b \in IouBoxes
    /\ iou_ab = NoIou
    /\ iou_ba = NoIou

\* _iou(a, b)
IouCall ==
    /\ iou_ab = NoIou
    /\ iou_ab' = Iou(iou_a, iou_b)
    /\ UNCHANGED <<next_id, tracks, last_dets, last_ball, bind, out_players, issued,
                   deleted, missed, regained, positions, timestamps,
                   iou_a, iou_b, iou_ba, ball_seen, speed_out>>
    /\ UNCHANGED <<seg_vars, pipe_vars>>

\* _iou(b, a)
IouCallSwapped ==
    /\ iou_ba = NoIou
    /\ iou_ba' = Iou(iou_b, iou_a)
    /\ UNCHANGED <<next_id, tracks, last_dets, last_ball, bind, out_players, issued,
                   deleted, missed, regained, positions, timestamps,
                   iou_a, iou_b, iou_ab, ball_seen, speed_out>>
    /\ UNCHANGED <<seg_vars, pipe_vars>>

NextIou == IouCall \/ IouCallSwapped
SpecIou == InitIou /\ [][NextIou]_vars

\* C19: _iou(a, a) is 1 for every box a, a box of zero area included.
C19_IouSelfIsOne ==
    (iou_ab # NoIou /\ iou_a = iou_b) => REq(iou_ab, <<1, 1>>)

\* C19, amended: _iou(a, a) is 1 for every box a of positive area, and 0 for
\* a box of zero area.
C19_IouSelfIsOneIfArea ==
    (iou_ab # NoIou /\ iou_a = iou_b) =>
        /\ Area(iou_a) > 0 => REq(iou_ab, <<1, 1>>)
        /\ Area(iou_a) = 0 => REq(iou_ab, <<0, 1>>)

\* _iou was called on a box of positive area and itself
C19_Witness ==
    /\ iou_ab # NoIou
    /\ iou_a = iou_b
    /\ Area(iou_a) > 0
    /\ REq(iou_ab, <<1, 1>>)

\* the boxes share no point, or points of their borders only
Apart(a, b) ==
    \/ a.x2 <= b.x1 \/ b.x2 <= a.x1
    \/ a.y2 <= b.y1 \/ b.y2 <= a.y1

\* C20: for boxes a, b with x1 <= x2 and y1 <= y2, _iou(a, b) lies in [0,1],
\* equals _iou(b, a), and is 0 when the boxes are disjoint or only touch.
C20_IouRangeSymmetry ==
    /\ iou_ab # NoIou =>
        /\ RGe(iou_ab, <<0, 1>>)
        /\ RGe(<<1, 1>>, iou_ab)
        /\ iou_ab[2] > 0
        /\ Apart(iou_a, iou_b) => REq(iou_ab, <<0, 1>>)
    /\ (iou_ab # NoIou /\ iou_ba # NoIou) => REq(iou_ab, iou_ba)

\* both calls were made on two different boxes that overlap in part
C20_Witness ==
    /\ iou_ab # NoIou
    /\ iou_ba # NoIou
    /\ iou_a # iou_b
    /\ RGt(iou_ab, <<0, 1>>)
    /\ RGt(<<1, 1>>, iou_ab)

----------------------------------------------------------------------------
(* process_video over a video whose ball rests at mid height (y = 0.5) or  *)
(* rises to it in steps of 20 px; no player is seen                         *)

StillStarts == {<<640, 360>>, <<640, 380>>, <<640, 400>>}
StillSteps == {<<0, 0>>, <<0, -20>>}

StillCentres ==
    IF positions = <<>> THEN StillStarts
    ELSE {c \in {<<positions[Len(positions)][1] + d[1],
                   positions[Len(positions)][2] + d[2]>> : d \in StillSteps} :
            c[2] >= 360}

StillInputs == {Raw(<<>>, BallAt(c)) : c \in StillCentres}

InitStill == PipeStart({100}) /\ frame_skip = 1

ReadProcessedStill == ReadProcessedOf(MaxStillFrames, StillInputs)

NextStill == OpenVideo \/ OpenFails \/ ReadProcessedStill \/ EndOfStream \/ Finish
SpecStill == InitStill /\ [][NextStill]_vars

\* the trajectory's speed is 0 and the ball is at y = 0.5
AtRest ==
    /\ positions # <<>>
    /\ REq(Speed(positions), <<0, 1>>)
    /\ 2 * positions[Len(positions)][2] = frame_height

\* every frame so far had speed 0 and the ball at y = 0.5: no sample differs
\* from the first, which is at mid height
OnlyAtRest ==
    /\ 2 * positions[1][2] = frame_height
    /\ \A i \in 1..Len(positions) :
        positions[i][1] = positions[1][1] /\ positions[i][2] = positions[1][2]

\* C22: on every frame at which the trajectory's speed is 0 and the
\* normalized ball y is 0.5, classify returns OTHER; a stream made only of
\* such frames never commits an event, the final flush included.
C22_AtRestIsOther ==
    /\ (seg_op = "update" /\ AtRest) => seg_pred.action = Other
    /\ (seg_updates > 0 /\ OnlyAtRest) => events = <<>>

\* C22, amended: on every frame at which the trajectory's speed is 0, the
\* normalized ball y is 0.5 and the height trend is not below -1.5 (as when
\* the last six samples are at one height), classify returns OTHER; a stream
\* made only of frames with speed 0 and y = 0.5 never commits an event, the
\* final flush included.
C22_AtRestAndLevelIsOther ==
    /\ (seg_op = "update" /\ AtRest /\ RGe(HeightTrend(positions), <<-15, 10>>))
            => seg_pred.action = Other
    /\ (seg_updates > 0 /\ OnlyAtRest) => events = <<>>

\* a completed run of more than MIN_STABLE_FRAMES frames, all with the ball
\* at rest at mid height
C22_Witness ==
    /\ pc = "done"
    /\ seg_updates > MIN_STABLE_FRAMES
    /\ OnlyAtRest
    /\ AtRest
    /\ seg_pred.action = Other
    /\ events = <<>>

----------------------------------------------------------------------------
(* The classifier on its own: classify is called any number of times, with *)
(* any players and frame index, on a trajectory that the tracker extends   *)
(* between the calls                                                        *)

\* samples the trajectory holds at most
MaxPureSamples == 5
\* classify calls made
MaxCalls == 3

PurePlayers == {<<>>, <<NewPlayer(B0)>>}
PureFrames == {0, 1}

InitPure == TrackerInit /\ IouIdle /\ SegIdle /\ PipeIdle

\* tracker.update on a frame that shows the ball and nobody
PureTrack ==
    /\ Len(positions) < MaxPureSamples
    /\ \E c \in StillCentres :
        TrackerUpdate(FrameDetections(Len(positions), TimeOf(Len(positions), fps),
                                      <<>>, BallAt(c)))
    /\ UNCHANGED <<seg_vars, pipe_vars>>

\* classifier.classify(tracker.ball_trajectory, players, frame_number)
ClassifyCallRemembers ==
    /\ Len(calls) < MaxCalls
    /\ \E players \in PurePlayers : \E frame_no \in PureFrames :
        \E p \in {Classify(positions, players)} :
        \E pred \in {IF p.action = Other /\ classifier.last_action # Other
                     THEN [p EXCEPT !.action = classifier.last_action] ELSE p} :
            /\ calls' = Append(calls, [pts |-> positions, players |-> players,
                                       frame_number |-> frame_no, pred |-> pred])
            /\ classifier' = [classifier EXCEPT !.last_action = pred.action]
    /\ UNCHANGED <<events, current_action, start_frame, start_time, stable_count,
                   seg_op, seg_pred, seg_frame, seg_time, run, ev_runs,
                   fps, frame_skip, seg_updates, seg_flushes, active, parked,
                   task, job, reply>>
    /\ UNCHANGED <<tracker_vars, pipe_vars>>
ClassifyCall ==
    /\ Len(calls) < MaxCalls
    /\ \E players \in PurePlayers : \E frame_no \in PureFrames :
        calls' = Append(calls, [pts |-> positions, players |-> players,
                                frame_number |-> frame_no,
                                pred |-> Classify(positions, players)])
    /\ UNCHANGED <<events, current_action, start_frame, start_time, stable_count,
                   seg_op, seg_pred, seg_frame, seg_time, run, ev_runs,
                   fps, frame_skip, seg_updates, seg_flushes, classifier,
                   active, parked, task, job, reply>>
    /\ UNCHANGED <<tracker_vars, pipe_vars>>

NextPure == PureTrack \/ ClassifyCall
SpecPure == InitPure /\ [][NextPure]_vars

----------------------------------------------------------------------------
(* process_video over sparse frames: no ball or a ball box of no area, no  *)
(* player or player boxes of no area or no width                            *)

MaxSparseFrames == 4

ZeroBox == Detection(5, 1, 5, 1)         \* no area, inside B0
ThinBox == Detection(5, 0, 5, 2)         \* no width, inside B0
ZeroBall == Detection(640, 360, 640, 360)

SparsePlayers ==
    {<<>>, <<Seen(ZeroBox, "unknown")>>, <<Seen(ThinBox, "red")>>,
     <<Seen(B0, "red")>>, <<Seen(B0, "red"), Seen(ZeroBox, "blue")>>}
SparseBalls == {NoBall, ZeroBall, Detection(636, 356, 644, 364)}
SparseInputs == {Raw(ps, b) : ps \in SparsePlayers, b \in SparseBalls}

\* a box of no area
NoArea(det) == Area(det) = 0

\* the frame is of one of the sparse shapes
IsSparse(ball, dets) ==
    \/ ball = NoBall
    \/ dets = <<>>
    \/ (ball # NoBall /\ NoArea(ball))
    \/ \E i \in 1..Len(dets) : NoArea(dets[i].detection)

\* SimpleTracker.update raises: the remove of line 123
TrackerRaises(dets) ==
    MatchTracks(SortedSeq(DOMAIN tracks), 1, dets,
                [unmatched |-> [i \in 1..Len(dets) |-> i],
                 matched   |-> {},
                 table     |-> tracks,
                 pairs     |-> {},
                 raised    |-> FALSE]).raised

\* classify raises: the divisions of lines 87-88, reached once the trajectory
\* has a sample (lines 79-84 return before them)
ClassifyRaises(pts) == pts # <<>> /\ (frame_width = 0 \/ frame_height = 0)

\* tracker.update, classify or segmenter.update raises on the detections d;
\* EventSegmenter.update compares, counts and appends only
FrameRaises(d) ==
    \/ TrackerRaises(d.players)
    \/ ClassifyRaises(IF d.ball # NoBall
                      THEN DequeAppend(positions, <<Cx(d.ball), Cy(d.ball), d.frame_number>>)
                      ELSE positions)

InitSparse == PipeStart({100}) /\ frame_skip = 1

\* one pass of the loop; an exception of a stage leaves process_video
ReadProcessedSparse ==
    \E raw \in SparseInputs :
        IF FrameRaises(DetectFrame(raw, frame_number, fps, team_colors))
        THEN /\ pc = "loop"
             /\ frame_number < MaxSparseFrames
             /\ pc' = "raised"
             /\ UNCHANGED <<total_frames, frame_number, processed, color_counter,
                            calibrated, calib_frames, last_action, progress, result,
                            team_colors, calib_at>>
             /\ UNCHANGED <<tracker_vars, seg_vars>>
        ELSE ReadProcessedOf(MaxSparseFrames, {raw})

NextSparse == OpenVideo \/ ReadProcessedSparse \/ EndOfStream \/ Finish
SpecSparse == InitSparse /\ [][NextSparse]_vars

\* C24: on a frame with no ball, no player or boxes of no area,
\* tracker.update, classify and segmenter.update all complete and a
\* prediction is produced; no such frame leads to the raised state.
C24_SparseFramesComplete ==
    /\ pc # "raised"
    /\ (seg_op = "update" /\ IsSparse(last_ball, last_dets)) =>
        /\ seg_frame = frame_number - 1
        /\ seg_updates = frame_number
        /\ seg_pred.action \in {SERVE, PASS, SET, ATTACK, BLOCK, DIG, Other}
        /\ seg_pred.confidence \in 0..100
        /\ last_action = seg_pred.action
        /\ \A p \in bind : p[2] \in 1..Len(last_dets)

\* a frame with no ball and a player box of no area, after a frame that left
\* a track and a frame with a ball box of no area
C24_Witness ==
    /\ seg_op = "update"
    /\ frame_number = 4
    /\ last_ball = NoBall
    /\ Len(last_dets) = 1
    /\ NoArea(last_dets[1].detection)
    /\ Cardinality(DOMAIN tracks) = 2
    /\ Len(positions) = 1
    /\ positions[1][1] = 640
    /\ seg_pred.action = Other

----------------------------------------------------------------------------
(* process_video over a video longer than the trajectory's capacity that   *)
(* shows the ball in nearly every frame                                      *)

MaxTrajFrames == 64

\* the frames in which the detector may miss the ball: before the trajectory
\* is full, and after
GapFrames == {0, 30, 62}

TrajInputs(n) ==
    {Raw(<<>>, ServeBall(n))} \cup (IF n \in GapFrames THEN {Raw(<<>>, NoBall)} ELSE {})

InitTraj == PipeStart({100}) /\ frame_skip = 1

ReadProcessedTraj == ReadProcessedOf(MaxTrajFrames, TrajInputs(frame_number))

NextTraj == OpenVideo \/ OpenFails \/ ReadProcessedTraj \/ EndOfStream \/ Finish
SpecTraj == InitTraj /\ [][NextTraj]_vars

\* C25: the trajectory holds the most recent min(k, maxlen) ball samples in
\* arrival order, k being the number of frames that had a ball; positions and
\* timestamps have equal length; a frame without a ball leaves the trajectory
\* unchanged and a frame with a ball appends exactly one sample and rewrites
\* none of those that stay.
C25_TrajectoryIsRecentWindow ==
    /\ [](LET k == Len(ball_seen)
              m == Min(k, maxlen)
          IN  /\ Len(positions) = m
              /\ Len(timestamps) = Len(positions)
              /\ \A i \in 1..m :
                    /\ positions[i] = ball_seen[k - m + i].sample
                    /\ timestamps[i] = ball_seen[k - m + i].timestamp)
    /\ [][processed' # processed =>
            IF last_ball' = NoBall
            THEN positions' = positions /\ timestamps' = timestamps
            ELSE LET kept == IF Len(positions) = maxlen THEN Tail(positions) ELSE positions
                     keptT == IF Len(timestamps) = maxlen THEN Tail(timestamps) ELSE timestamps
                 IN  /\ Len(positions') = Len(kept) + 1
                     /\ SubSeq(positions', 1, Len(kept)) = kept
                     /\ SubSeq(timestamps', 1, Len(keptT)) = keptT
                     /\ positions'[Len(positions')][3] = frame_number]_vars

\* the ball was seen in 62 frames, two samples were evicted, and the last
\* frame showed no ball
C25_Witness ==
    /\ frame_number = 63
    /\ last_ball = NoBall
    /\ Len(ball_seen) = 62
    /\ Len(positions) = 60
    /\ positions[1][3] = 2
    /\ positions[60][3] = 61

----------------------------------------------------------------------------
(* BallTrajectory.speed on its own: the tracker is fed a ball that moves   *)
(* along a line by 0, 3, 4 or 7 px, and speed is read at any time           *)

MaxSpeedSamples == 7

SpeedXs == {600, 603, 607}

InitSpeed == TrackerInit /\ IouIdle /\ SegIdle /\ PipeIdle

\* tracker.update on a frame that shows the ball and nobody
SpeedTrack ==
    /\ Len(positions) < MaxSpeedSamples
    /\ \E x \in SpeedXs :
        TrackerUpdate(FrameDetections(Len(positions), TimeOf(Len(positions), fps),
                                      <<>>, BallAt(<<x, 360>>)))
    /\ UNCHANGED <<seg_vars, pipe_vars>>

\* tracker.ball_trajectory.speed
SpeedRead ==
    /\ speed_out.pts # positions \/ speed_out = NoSpeedRead
    /\ speed_out' = [pts |-> positions, value |-> Speed(positions)]
    /\ UNCHANGED <<next_id, tracks, last_dets, last_ball, bind, out_players, issued,
                   deleted, missed, regained, positions, timestamps,
                   iou_a, iou_b, iou_ab, iou_ba, ball_seen>>
    /\ UNCHANGED <<seg_vars, pipe_vars>>

NextSpeed == SpeedTrack \/ SpeedRead
SpecSpeed == InitSpeed /\ [][NextSpeed]_vars

\* the mean displacement over the last p consecutive sample pairs of pts
RECURSIVE SumOfLastPairs(_, _)
SumOfLastPairs(pts, p) ==
    IF p = 0 THEN 0
    ELSE Dist(pts[Len(pts) - 1], pts[Len(pts)])
         + SumOfLastPairs(SubSeq(pts, 1, Len(pts) - 1), p - 1)
MeanOfLastPairs(pts, p) == <<SumOfLastPairs(pts, p), p>>

\* C26 as stated: speed is the mean displacement over the last min(5, n-1)
\* sample pairs, and 0 when n < 2.
C26_SpeedOverFivePairs ==
    speed_out # NoSpeedRead =>
        LET n == Len(speed_out.pts)
        IN  IF n < 2 THEN REq(speed_out.value, <<0, 1>>)
            ELSE REq(speed_out.value, MeanOfLastPairs(speed_out.pts, Min(5, n - 1)))

\* C26: speed is the mean displacement over the last min(4, n-1) sample
\* pairs of a trajectory with n samples, and 0 when n < 2; with 5 or more
\* samples it averages 4 pairs.
C26_SpeedOverFourPairs ==
    speed_out # NoSpeedRead =>
        LET n == Len(speed_out.pts)
        IN  IF n < 2 THEN REq(speed_out.value, <<0, 1>>)
            ELSE REq(speed_out.value, MeanOfLastPairs(speed_out.pts, Min(4, n - 1)))

\* speed read on 7 samples whose fifth pair from the end is a move of 7 px
\* and whose last four pairs are moves of 3, 4, 0 and 4 px
C26_Witness ==
    /\ Len(speed_out.pts) = 7
    /\ speed_out.pts = positions
    /\ Dist(positions[2], positions[3]) = 7
    /\ Dist(positions[3], positions[4]) = 3
    /\ Dist(positions[4], positions[5]) = 4
    /\ Dist(positions[5], positions[6]) = 0
    /\ REq(speed_out.value, <<11, 4>>)

----------------------------------------------------------------------------
(* Several process_video calls at once.  Each call builds its detector,    *)
(* tracker, classifier and segmenter (video_processor.py:127-130) and the  *)
(* tracker its trajectory, whose deques come from a default_factory         *)
(* (tracker.py:28-29); the calls take turns on the processor.  Calls "a"    *)
(* and "solo" are given the same video, call "b" another one.               *)

MaxTwoFrames == 13

Runs == {"a", "b", "solo"}

\* the objects of the call that runs
Ctx ==
    [next_id |-> next_id, tracks |-> tracks, last_dets |-> last_dets,
     last_ball |-> last_ball, bind |-> bind, out_players |-> out_players,
     issued |-> issued, deleted |-> deleted, missed |-> missed,
     regained |-> regained, positions |-> positions,
     timestamps |-> timestamps, iou_a |-> iou_a, iou_b |-> iou_b,
     iou_ab |-> iou_ab, iou_ba |-> iou_ba, ball_seen |-> ball_seen,
     speed_out |-> speed_out, events |-> events,
     current_action |-> current_action, start_frame |-> start_frame,
     start_time |-> start_time, stable_count |-> stable_count,
     seg_op |-> seg_op, seg_pred |-> seg_pred, seg_frame |-> seg_frame,
     seg_time |-> seg_time, run |-> run, ev_runs |-> ev_runs, fps |-> fps,
     frame_skip |-> frame_skip, seg_updates |-> seg_updates,
     seg_flushes |-> seg_flushes, classifier |-> classifier, calls |-> calls,
     pc |-> pc, total_frames |-> total_frames, frame_number |-> frame_number,
     processed |-> processed, color_counter |-> color_counter,
     calibrated |-> calibrated, calib_frames |-> calib_frames,
     last_action |-> last_action, progress |-> progress, result |-> result,
     team_colors |-> team_colors, calib_at |-> calib_at]

\* the call that runs goes on with the objects c
Resume(c) ==
    /\ next_id' = c.next_id
    /\ tracks' = c.tracks
    /\ last_dets' = c.last_dets
    /\ last_ball' = c.last_ball
    /\ bind' = c.bind
    /\ out_players' = c.out_players
    /\ issued' = c.issued
    /\ deleted' = c.deleted
    /\ missed' = c.missed
    /\ regained' = c.regained
    /\ positions' = c.positions
    /\ timestamps' = c.timestamps
    /\ iou_a' = c.iou_a
    /\ iou_b' = c.iou_b
    /\ iou_ab' = c.iou_ab
    /\ iou_ba' = c.iou_ba
    /\ ball_seen' = c.ball_seen
    /\ speed_out' = c.speed_out
    /\ events' = c.events
    /\ current_action' = c.current_action
    /\ start_frame' = c.start_frame
    /\ start_time' = c.start_time
    /\ stable_count' = c.stable_count
    /\ seg_op' = c.seg_op
    /\ seg_pred' = c.seg_pred
    /\ seg_frame' = c.seg_frame
    /\ seg_time' = c.seg_time
    /\ run' = c.run
    /\ ev_runs' = c.ev_runs
    /\ fps' = c.fps
    /\ frame_skip' = c.frame_skip
    /\ seg_updates' = c.seg_updates
    /\ seg_flushes' = c.seg_flushes
    /\ classifier' = c.classifier
    /\ calls' = c.calls
    /\ pc' = c.pc
    /\ total_frames' = c.total_frames
    /\ frame_number' = c.frame_number
    /\ processed' = c.processed
    /\ color_counter' = c.color_counter
    /\ calibrated' = c.calibrated
    /\ calib_frames' = c.calib_frames
    /\ last_action' = c.last_action
    /\ progress' = c.progress
    /\ result' = c.result
    /\ team_colors' = c.team_colors
    /\ calib_at' = c.calib_at

\* what the detector finds in frame n of the two videos
VideoX(n) ==
    Raw(IF n >= 2 THEN <<Seen(B0, "red"), Seen(Far, "blue")>> ELSE <<Seen(B0, "red")>>,
        ServeBall(n))
VideoY(n) ==
    Raw(<<Seen(B7, "blue")>>, IF n >= 1 THEN BallAt(<<1000 - 20 * n, 360>>) ELSE NoBall)
VideoOf(r, n) == IF r = "b" THEN VideoY(n) ELSE VideoX(n)

\* every call starts from the state process_video sets up
InitTwo ==
    /\ PipeStart({4})
    /\ frame_skip = 1
    /\ fps = 25

\* process_video is called once more, before the call that runs has opened
\* its video: the new call waits with objects of its own
Call(r) ==
    /\ pc = "start"
    /\ r # active
    /\ r \notin DOMAIN parked
    /\ parked' = [x \in DOMAIN parked \cup {r} |-> IF x = r THEN Ctx ELSE parked[x]]
    /\ UNCHANGED active
    /\ UNCHANGED <<events, current_action, start_frame, start_time, stable_count,
                   seg_op, seg_pred, seg_frame, seg_time, run, ev_runs,
                   fps, frame_skip, seg_updates, seg_flushes, classifier, calls,
                   task, job, reply>>
    /\ UNCHANGED <<tracker_vars, pipe_vars>>

\* the call r gets the processor; the one that ran waits
SwitchSharedTrajectory(r) ==
    /\ r # active
    /\ r \in DOMAIN parked
    /\ \E c \in {parked[r]} :
        /\ IF {r, active} = {"a", "b"}
           THEN UNCHANGED <<positions, timestamps>>
           ELSE positions' = c.positions /\ timestamps' = c.timestamps
        /\ next_id' = c.next_id
        /\ tracks' = c.tracks
        /\ last_dets' = c.last_dets
        /\ last_ball' = c.last_ball
        /\ bind' = c.bind
        /\ out_players' = c.out_players
        /\ issued' = c.issued
        /\ deleted' = c.deleted
        /\ missed' = c.missed
        /\ regained' = c.regained
        /\ iou_a' = c.iou_a
        /\ iou_b' = c.iou_b
        /\ iou_ab' = c.iou_ab
        /\ iou_ba' = c.iou_ba
        /\ ball_seen' = c.ball_seen
        /\ speed_out' = c.speed_out
        /\ events' = c.events
        /\ current_action' = c.current_action
        /\ start_frame' = c.start_frame
        /\ start_time' = c.start_time
        /\ stable_count' = c.stable_count
        /\ seg_op' = c.seg_op
        /\ seg_pred' = c.seg_pred
        /\ seg_frame' = c.seg_frame
        /\ seg_time' = c.seg_time
        /\ run' = c.run
        /\ ev_runs' = c.ev_runs
        /\ fps' = c.fps
        /\ frame_skip' = c.frame_skip
        /\ seg_updates' = c.seg_updates
        /\ seg_flushes' = c.seg_flushes
        /\ classifier' = c.classifier
        /\ calls' = c.calls
        /\ pc' = c.pc
        /\ total_frames' = c.total_frames
        /\ frame_number' = c.frame_number
        /\ processed' = c.processed
        /\ color_counter' = c.color_counter
        /\ calibrated' = c.calibrated
        /\ calib_frames' = c.calib_frames
        /\ last_action' = c.last_action
        /\ progress' = c.progress
        /\ result' = c.result
        /\ team_colors' = c.team_colors
        /\ calib_at' = c.calib_at
    /\ active' = r
    /\ parked' = [x \in (DOMAIN parked \cup {active}) \ {r} |->
                    IF x = active THEN Ctx ELSE parked[x]]
    /\ UNCHANGED <<task, job, reply>>
Switch(r) ==
    /\ r # active
    /\ r \in DOMAIN parked
    /\ Resume(parked[r])
    /\ active' = r
    /\ parked' = [x \in (DOMAIN parked \cup {active}) \ {r} |->
                    IF x = active THEN Ctx ELSE parked[x]]
    /\ UNCHANGED <<task, job, reply>>

ReadProcessedTwo ==
    ReadProcessedOf(MaxTwoFrames, {VideoOf(active, frame_number)})

NextTwo ==
    \/ OpenVideo
    \/ ReadProcessedTwo
    \/ EndOfStream
    \/ Finish
    \/ \E r \in Runs : Call(r)
    \/ \E r \in Runs : Switch(r)
SpecTwo == InitTwo /\ [][NextTwo]_vars

\* the calls made so far, and the objects of call r
Called == DOMAIN parked \cup {active}
CtxOf(r) == IF r = active THEN Ctx ELSE parked[r]

----------------------------------------------------------------------------
(* tasks.py: analyze_video, from the upload that queues it (api/main.py:   *)
(* 95-151) to the update that stores the result.  process_video is called  *)
(* with frame_skip = 2 and progress_cb; the detector finds nothing, which   *)
(* does not change what is reported.                                         *)

\* line 75: progress = 0.05 + p * 0.85, over the denominator 100 * p[2]
JobWriteUnscaled(p) == p
JobWrite(p) == <<5 * p[2] + 85 * p[1], 100 * p[2]>>

\* the progress values written to the job document by this execution, in
\* order: by the task before process_video, by progress_cb, by the task after
ProgressWrites ==
    task.before \o [i \in 1..Len(progress) |-> JobWrite(progress[i])] \o task.after

InitTask == PipeStart(LongTotalFramesValues) /\ frame_skip = 2

\* upload_video: the job is inserted and the task queued (api/main.py:129-143)
Upload ==
    /\ task.pc = "none"
    /\ task' = [task EXCEPT !.pc = "queued"]
    /\ job' = [status |-> "pending", result |-> NoResult]
    /\ UNCHANGED <<tracker_vars, pipe_vars, seg_rest>>

\* lines 54-55
TaskBegin ==
    /\ task.pc = "queued"
    /\ task' = [task EXCEPT !.pc = "download", !.before = <<(<<0, 1>>)>>]
    /\ job' = [job EXCEPT !.status = "processing"]
    /\ UNCHANGED <<tracker_vars, pipe_vars, seg_rest>>

\* lines 62-71: the download succeeds
DownloadOk ==
    /\ task.pc = "download"
    /\ task' = [task EXCEPT !.pc = "pipeline", !.before = Append(@, <<5, 100>>)]
    /\ UNCHANGED <<job, tracker_vars, pipe_vars, seg_rest>>

\* lines 66-69: the download fails
DownloadFails ==
    /\ task.pc = "download"
    /\ task' = [task EXCEPT !.pc = "raised"]
    /\ job' = [job EXCEPT !.status = "error"]
    /\ UNCHANGED <<tracker_vars, pipe_vars, seg_rest>>

\* lines 77-83: process_video runs
TaskOpenVideo == task.pc = "pipeline" /\ OpenVideo
TaskOpenFails == task.pc = "pipeline" /\ OpenFails
TaskReadProcessed == task.pc = "pipeline" /\ ReadProcessedLong
TaskReadSkipped == task.pc = "pipeline" /\ ReadSkippedLong
TaskEndOfStream == task.pc = "pipeline" /\ EndOfStream
TaskFinish == task.pc = "pipeline" /\ Finish

\* detect_frame, a stage or the writer raises inside the loop
\* (video_processor.py:145-181)
FrameFails ==
    /\ task.pc = "pipeline"
    /\ pc = "loop"
    /\ frame_number < MaxLongFrames
    /\ pc' = "raised"
    /\ UNCHANGED <<total_frames, frame_number, processed, color_counter, calibrated,
                   calib_frames, last_action, progress, result, team_colors, calib_at>>
    /\ UNCHANGED <<tracker_vars, seg_vars>>

\* lines 84-87: process_video raised
ProcessingFailsSwallowed ==
    /\ task.pc = "pipeline"
    /\ pc = "raised"
    /\ task' = [task EXCEPT !.pc = "store"]
    /\ UNCHANGED <<job, tracker_vars, pipe_vars, seg_rest>>
ProcessingFails ==
    /\ task.pc = "pipeline"
    /\ pc = "raised"
    /\ task' = [task EXCEPT !.pc = "raised"]
    /\ job' = [job EXCEPT !.status = "error"]
    /\ UNCHANGED <<tracker_vars, pipe_vars, seg_rest>>

\* lines 90-98: process_video returned; the upload of the annotated video
\* succeeds or fails
UploadAnnotated ==
    /\ task.pc = "pipeline"
    /\ pc = "done"
    /\ \E out \in {"annotated.mp4", "None"} :
        task' = [task EXCEPT !.pc = "store", !.after = <<(<<92, 100>>)>>,
                             !.output_object = out]
    /\ UNCHANGED <<job, tracker_vars, pipe_vars, seg_rest>>

\* lines 101-123
StoreResult ==
    /\ task.pc = "store"
    /\ task' = [task EXCEPT !.pc = "done", !.after = Append(@, <<1, 1>>)]
    /\ job' = [status |-> "done",
               result |-> [pipeline |-> result,
                           output_video_url |->
                               IF task.output_object # "None" THEN "/video/job"
                               ELSE "None"]]
    /\ UNCHANGED <<tracker_vars, pipe_vars, seg_rest>>

NextTask ==
    \/ Upload
    \/ TaskBegin
    \/ DownloadOk
    \/ DownloadFails
    \/ TaskOpenVideo
    \/ TaskOpenFails
    \/ TaskReadProcessed
    \/ TaskReadSkipped
    \/ TaskEndOfStream
    \/ TaskFinish
    \/ FrameFails
    \/ ProcessingFails
    \/ UploadAnnotated
    \/ StoreResult
SpecTask == InitTask /\ [][NextTask]_vars

\* C29: the progress values an execution of analyze_video writes to the job
\* document start at 0.0, never decrease and lie in [0,1], and the value 1.0
\* is written only by the update that sets status "done" and stores the
\* result, which an execution that completes ends with.
C29_JobProgressMonotone ==
    LET w == ProgressWrites
    IN  /\ w # <<>> => REq(w[1], <<0, 1>>)
        /\ \A i \in 1..Len(w) :
            /\ RGe(w[i], <<0, 1>>)
            /\ RGe(<<1, 1>>, w[i])
            /\ \A j \in (i + 1)..Len(w) : RGe(w[j], w[i])
            /\ REq(w[i], <<1, 1>>) =>
                (i = Len(w) /\ task.pc = "done" /\ job.status = "done"
                 /\ job.result # NoResult)
        /\ task.pc = "done" =>
            (REq(w[Len(w)], <<1, 1>>) /\ job.status = "done" /\ job.result # NoResult)
        /\ job.status = "done" => task.pc = "done"

\* a completed execution on a video of more frames than the container
\* reports: progress_cb wrote 0.832 twice, 0.849 and 0.9
C29_Witness ==
    /\ task.pc = "done"
    /\ total_frames = 40
    /\ frame_number = 60
    /\ Len(progress) = 4
    /\ Len(ProgressWrites) = 8
    /\ REq(ProgressWrites[4], <<832, 1000>>)
    /\ REq(ProgressWrites[6], <<90, 100>>)
    /\ job.status = "done"

\* C30: when the video cannot be opened or processing fails, process_video
\* raises and returns no result; analyze_video then sets the job status to
\* "error" and re-raises, and the job neither reaches "done" nor gets a
\* result in that execution.
C30_FailureGivesError ==
    /\ [](/\ pc = "raised" => (result = NoResult /\ job.status # "done")
          /\ task.pc = "raised" => (job.status = "error" /\ job.result = NoResult)
          /\ job.status = "error" => (task.pc = "raised" /\ job.result = NoResult))
    /\ [][/\ (pc = "raised" /\ task' # task) =>
                (task'.pc = "raised" /\ job'.status = "error")
          /\ pc = "raised" => pc' = "raised"
          /\ job.status = "error" => job' = job]_vars

\* processing failed after 30 frames and one progress report, and the job
\* is in error
C30_Witness ==
    /\ task.pc = "raised"
    /\ pc = "raised"
    /\ frame_number = 30
    /\ Len(progress) = 1
    /\ job.status = "error"
    /\ job.result = NoResult

----------------------------------------------------------------------------
(* api/main.py: GET /result/{job_id}, asked at any point of the task       *)

\* no request was made
NoReply == [status |-> "none", code |-> 0, result |-> NoResult]

\* api/models.py:16-23: the values ActionEvent.action_type accepts
ApiActionTypes == {"serve", "pass", "set", "attack", "block", "dig", "other"}

\* AnalysisResult(**job["result"]): pydantic validates the events
SchemaAccepts(res) ==
    \A i \in 1..Len(res.pipeline.events) :
        res.pipeline.events[i].action_type \in ApiActionTypes

\* get_result; status "none" stands for a job_id with no document
GetResultReplyNoStatusCheck(doc) ==
    IF doc.status = "none" THEN [status |-> doc.status, code |-> 404, result |-> NoResult]
    ELSE IF doc.result = NoResult
    THEN [status |-> doc.status, code |-> 500, result |-> NoResult]
    ELSE IF ~SchemaAccepts(doc.result)
    THEN [status |-> doc.status, code |-> 500, result |-> NoResult]
    ELSE [status |-> doc.status, code |-> 200, result |-> doc.result]
GetResultReply(doc) ==
    IF doc.status = "none" THEN [status |-> doc.status, code |-> 404, result |-> NoResult]
    ELSE IF doc.status # "done"
    THEN [status |-> doc.status, code |-> 409, result |-> NoResult]
    ELSE IF doc.result = NoResult
    THEN [status |-> doc.status, code |-> 500, result |-> NoResult]
    ELSE IF ~SchemaAccepts(doc.result)
    THEN [status |-> doc.status, code |-> 500, result |-> NoResult]
    ELSE [status |-> doc.status, code |-> 200, result |-> doc.result]

GetResult ==
    /\ reply' = GetResultReply(job)
    /\ UNCHANGED <<events, current_action, start_frame, start_time, stable_count,
                   seg_op, seg_pred, seg_frame, seg_time, run, ev_runs,
                   fps, frame_skip, seg_updates, seg_flushes, classifier, calls,
                   active, parked, task, job>>
    /\ UNCHANGED <<tracker_vars, pipe_vars>>

NextApi == NextTask \/ GetResult
SpecApi == InitTask /\ [][NextApi]_vars

\* C31: GET /result answers 404 for an unknown job, 409 for a job that is
\* pending, processing or in error, and returns a result only for a job
\* whose status is "done".
C31_ResultOnlyWhenDone ==
    reply # NoReply =>
        /\ reply.status = "none" => reply.code = 404
        /\ reply.status \in {"pending", "processing", "error"} => reply.code = 409
        /\ reply.code = 200 => (reply.status = "done" /\ reply.result # NoResult)
        /\ reply.result # NoResult => (reply.status = "done" /\ reply.code = 200)

\* a job whose processing failed was asked for its result and answered 409
C31_Witness ==
    /\ reply.status = "error"
    /\ reply.code = 409
    /\ reply.result = NoResult
    /\ job.status = "error"
    /\ pc = "raised"
    /\ frame_number = 30

\* C34: every event of the result process_video returns has an action_type
\* that is one of the strings serve, pass, set, attack, block, dig, so the
\* result passes the validation GET /status and GET /result apply to it.
C34_ResultActionTypesAccepted ==
    result # NoResult =>
        /\ \A i \in 1..Len(result.events) :
              result.events[i].action_type \in {SERVE, PASS, SET, ATTACK, BLOCK, DIG}
        /\ SchemaAccepts([pipeline |-> result])

====
